---- MODULE Spec2Model ----
(***************************************************************************)
(* Locksmith (lksmith): a runtime lock-order validator.                    *)
(*                                                                         *)
(* The model follows src/lksmith.c and the pthread wrappers of             *)
(* src/handler.c.  Lock records live at heap addresses (the before arrays  *)
(* hold record addresses and are sorted by them); the registry maps a lock *)
(* token to the address of its record.  Every entry point runs its         *)
(* registry work under g_tree_lock and touches only the caller's own       *)
(* thread-local data outside it, so one entry point is one step.           *)
(***************************************************************************)
EXTENDS Integers, Sequences, FiniteSets, TLC

(***************************************************************************)
(* Bounds of the model.                                                    *)
(***************************************************************************)
NumThreads == 2
NumLocks == 2
MaxColor == 3
MAX_NLOCK == 2

Threads == 1..NumThreads
Locks == 1..NumLocks
NULL == 0

(***************************************************************************)
(* errno values used by the validator.                                     *)
(***************************************************************************)
EPERM == 1
ENOENT == 2
EIO == 5
EWOULDBLOCK == 11
ENOMEM == 12
EBUSY == 16
EEXIST == 17
EINVAL == 22
EDEADLK == 35

(***************************************************************************)
(* LKSMITH_IGNORED_FRAMES=ignore1 (one of the names of ignore_unit.c) and  *)
(* LKSMITH_IGNORED_FRAME_PATTERNS=skip*.  A backtrace is the sequence of   *)
(* frame names captured by holder_create, innermost first.                 *)
(***************************************************************************)
g_ignored_frames == {"ignore1"}
g_ignored_frame_patterns == {"skip*"}
Backtraces == {<<"main">>, <<"ignore1", "main">>, <<"skip_lock", "main">>}

\* a matcher that treats the pattern as a plain name
fnmatch_literal(pat, frame) == IF pat = frame THEN 0 ELSE 1

\* fnmatch(3) with flags 0 on the names above: 0 on a match, FNM_NOMATCH
\* otherwise; "skip*" matches every name that starts with skip
fnmatch(pat, frame) ==
    IF \/ pat = frame
       \/ pat = "skip*" /\ frame \in {"skip_lock"}
    THEN 0 ELSE 1

VARIABLES
    g_tree,     \* registry: token -> address of its record, or NULL
    heap,       \* address -> struct lksmith_lock (with a liveness flag)
    g_color,    \* latest colour used in graph traversal
    tls,        \* thread -> struct lksmith_tls
    pend,       \* thread -> where the thread is inside a pthread wrapper
    reports,    \* codes passed to lksmith_error by the last entry point
    last,       \* the last entry point: [op, thread, ptr, ret]
    g_init_state_lock,  \* the spin lock around the initialization: 0 or 1
    g_initialized,      \* 1 once lksmith_init has run to its end
    init_runs,          \* number of times lksmith_init has been entered
    tls_made,           \* thread -> number of lksmith_tls structures made
    improved_tls        \* the build has HAVE_IMPROVED_TLS

init_vars ==
    <<g_init_state_lock, g_initialized, init_runs, tls_made, improved_tls>>

vars == <<g_tree, heap, g_color, tls, pend, reports, last,
          g_init_state_lock, g_initialized, init_runs, tls_made,
          improved_tls>>

(***************************************************************************)
(* A freed record keeps its bytes; live = FALSE marks it as freed memory.  *)
(***************************************************************************)
FreshLock == [live |-> FALSE, ptr |-> NULL, recursive |-> FALSE,
              sleeper |-> FALSE, spin_warn |-> FALSE, nlock |-> 0,
              color |-> 0, holders |-> <<>>, before |-> <<>>]

FreshTls(t) == [name |-> t, held |-> <<>>, num_spins |-> 0, intercept |-> TRUE]

NoPend == [kind |-> "none", ptr |-> NULL]

crashed == last.op = "abort"

(***************************************************************************)
(* Thread-local held list.                                                 *)
(***************************************************************************)
tls_append_held(held, ptr) == Append(held, ptr)

\* a membership test that forgets to compare the entries with ptr
tls_contains_lid_nonempty(held, ptr) == Len(held) > 0

tls_contains_lid(held, ptr) == \E i \in 1..Len(held) : held[i] = ptr

\* index of the last entry equal to ptr, 0 if there is none
LastIndexOf(held, ptr) ==
    IF tls_contains_lid(held, ptr)
    THEN CHOOSE i \in 1..Len(held) :
            /\ held[i] = ptr
            /\ \A j \in (i+1)..Len(held) : held[j] # ptr
    ELSE 0

RemoveAt(s, i) == [k \in 1..(Len(s) - 1) |-> IF k < i THEN s[k] ELSE s[k + 1]]

\* a removal that drops the newest entry, whatever it is
tls_remove_held_pop(held, ptr) ==
    IF ~tls_contains_lid(held, ptr) THEN [ret |-> ENOENT, held |-> held]
    ELSE [ret |-> 0, held |-> SubSeq(held, 1, Len(held) - 1)]

tls_remove_held(held, ptr) ==
    LET i == LastIndexOf(held, ptr)
    IN IF i = 0 THEN [ret |-> ENOENT, held |-> held]
       ELSE [ret |-> 0, held |-> RemoveAt(held, i)]

Count(s, x) == Cardinality({i \in 1..Len(s) : s[i] = x})

(***************************************************************************)
(* Sorted arrays of record addresses.                                      *)
(***************************************************************************)
\* first index whose element is lk or greater than lk; Len+1 if none
ScanIndex(arr, lk) ==
    IF \E i \in 1..Len(arr) : arr[i] >= lk
    THEN CHOOSE i \in 1..Len(arr) :
            /\ arr[i] >= lk
            /\ \A j \in 1..(i-1) : arr[j] < lk
    ELSE Len(arr) + 1

\* an insertion that does not look for the element first
lk_add_sorted_dup(arr, lk) ==
    LET i == ScanIndex(arr, lk)
    IN [k \in 1..(Len(arr) + 1) |->
          IF k < i THEN arr[k] ELSE IF k = i THEN lk ELSE arr[k - 1]]

lk_add_sorted(arr, lk) ==
    LET i == ScanIndex(arr, lk)
    IN IF i <= Len(arr) /\ arr[i] = lk THEN arr
       ELSE [k \in 1..(Len(arr) + 1) |->
                IF k < i THEN arr[k] ELSE IF k = i THEN lk ELSE arr[k - 1]]

\* memmove(&arr[i - 1], &arr[i], num - i - 1) with the C index i = i1 - 1,
\* then the array is cut to num - 1 elements.  oob: the move wrote arr[-1].
lk_remove_sorted(arr, ak) ==
    LET i1 == ScanIndex(arr, ak)
        num == Len(arr)
    IN IF num = 0 \/ i1 > num \/ arr[i1] # ak
       THEN [arr |-> arr, oob |-> FALSE]
       ELSE [arr |-> [k \in 1..(num - 1) |->
                        IF k >= i1 - 1 /\ k <= num - 2 THEN arr[k + 1]
                        ELSE arr[k]],
             oob |-> (i1 = 1 /\ num > 1)]

lk_add_before(lk, ak) == [lk EXCEPT !.before = lk_add_sorted(@, ak)]

lk_remove_before(lk, ak) ==
    LET r == lk_remove_sorted(lk.before, ak)
    IN [lk |-> [lk EXCEPT !.before = r.arr], oob |-> r.oob]

(***************************************************************************)
(* Holder list: most recent first.  A holder is the name snapshot.         *)
(***************************************************************************)
\* a prelock that records no holder
lk_holder_add_none(lk, name) == lk

\* an insertion at the tail of the holder list
lk_holder_add_tail(lk, name) == [lk EXCEPT !.holders = @ \o <<name>>]

lk_holder_add(lk, name) == [lk EXCEPT !.holders = <<name>> \o @]

\* a removal that takes out the head of the list, whoever it belongs to
lk_holder_remove_head(lk, name) ==
    IF lk.holders # <<>>
    THEN [lk |-> [lk EXCEPT !.holders = Tail(@)], fault |-> FALSE]
    ELSE [lk |-> lk, fault |-> TRUE]

\* a removal that drops every entry of the thread
lk_holder_remove_all(lk, name) ==
    IF \E i \in 1..Len(lk.holders) : lk.holders[i] = name
    THEN [lk |-> [lk EXCEPT !.holders = SelectSeq(@, LAMBDA n : n # name)],
          fault |-> FALSE]
    ELSE [lk |-> lk, fault |-> TRUE]

\* a removal that takes out the oldest entry of the thread
lk_holder_remove_oldest(lk, name) ==
    IF \E i \in 1..Len(lk.holders) : lk.holders[i] = name
    THEN LET i == CHOOSE i \in 1..Len(lk.holders) :
                    /\ lk.holders[i] = name
                    /\ \A j \in (i+1)..Len(lk.holders) : lk.holders[j] # name
         IN [lk |-> [lk EXCEPT !.holders = RemoveAt(@, i)], fault |-> FALSE]
    ELSE [lk |-> lk, fault |-> TRUE]

\* fault: the loop ran off the list and (*holder)->next read through NULL
lk_holder_remove(lk, name) ==
    IF \E i \in 1..Len(lk.holders) : lk.holders[i] = name
    THEN LET i == CHOOSE i \in 1..Len(lk.holders) :
                    /\ lk.holders[i] = name
                    /\ \A j \in 1..(i-1) : lk.holders[j] # name
         IN [lk |-> [lk EXCEPT !.holders = RemoveAt(@, i)], fault |-> FALSE]
    ELSE [lk |-> lk, fault |-> TRUE]

(***************************************************************************)
(* Registry.                                                               *)
(***************************************************************************)
lksmith_find(tree, ptr) == tree[ptr]

FreeAddrs(h) == {a \in DOMAIN h : ~h[a].live}

\* an insertion that marks every record as a sleeping lock
lksmith_insert_sleeper(h, a, ptr, recursive, sleeper) ==
    [h EXCEPT ![a] = [FreshLock EXCEPT !.live = TRUE, !.ptr = ptr,
                                       !.recursive = recursive,
                                       !.sleeper = TRUE]]

\* an insertion that stores the two properties in each other's place
lksmith_insert_swapped(h, a, ptr, recursive, sleeper) ==
    [h EXCEPT ![a] = [FreshLock EXCEPT !.live = TRUE, !.ptr = ptr,
                                       !.recursive = sleeper,
                                       !.sleeper = recursive]]

\* calloc + RB_INSERT of a record for ptr at address a
lksmith_insert(h, a, ptr, recursive, sleeper) ==
    [h EXCEPT ![a] = [FreshLock EXCEPT !.live = TRUE, !.ptr = ptr,
                                       !.recursive = recursive,
                                       !.sleeper = sleeper]]

(***************************************************************************)
(* Cycle search.  Returns [ret, heap, ub]; ub: a freed record was read.    *)
(***************************************************************************)
\* a search that looks at the direct predecessors only
lksmith_search_direct(h, gc, a, start) ==
    [ret |-> IF \/ h[a].ptr = start
                \/ \E i \in 1..Len(h[a].before) : h[h[a].before[i]].ptr = start
             THEN 1 ELSE 0,
     heap |-> [h EXCEPT ![a].color = gc],
     ub |-> ~h[a].live]

RECURSIVE lksmith_search(_, _, _, _)
RECURSIVE search_before(_, _, _, _, _)

lksmith_search(h, gc, a, start) ==
    IF h[a].ptr = start THEN [ret |-> 1, heap |-> h, ub |-> ~h[a].live]
    ELSE IF h[a].color = gc THEN [ret |-> 0, heap |-> h, ub |-> ~h[a].live]
    ELSE LET s == search_before([h EXCEPT ![a].color = gc], gc, a, 1, start)
         IN [s EXCEPT !.ub = @ \/ ~h[a].live]

search_before(h, gc, a, i, start) ==
    IF i > Len(h[a].before) THEN [ret |-> 0, heap |-> h, ub |-> FALSE]
    ELSE LET s == lksmith_search(h, gc, h[a].before[i], start)
         IN IF s.ret # 0 THEN s
            ELSE LET r == search_before(s.heap, gc, a, i + 1, start)
                 IN [r EXCEPT !.ub = @ \/ s.ub]

(***************************************************************************)
(* Dependency processing: the loop over the caller's held list, from       *)
(* index i on.  st = [heap, reports, ub].                                  *)
(***************************************************************************)
RECURSIVE process_depends_from(_, _, _, _, _, _, _)

\* a loop that records a held recursive lock as taken before itself
process_depends_from_self_edge(st, tree, gc, held, i, lk, ptr) ==
    IF i > Len(held) THEN st
    ELSE LET ak == lksmith_find(tree, held[i])
             nxt ==
               IF ak = NULL
               THEN [st EXCEPT !.reports = Append(@, ENOMEM)]
               ELSE IF ak = lk /\ ~st.heap[ak].recursive
               THEN [st EXCEPT !.reports = Append(@, EDEADLK)]
               ELSE LET s == IF ak = lk
                             THEN [ret |-> 0, heap |-> st.heap, ub |-> FALSE]
                             ELSE lksmith_search(st.heap, gc, ak, ptr)
                    IN IF s.ret # 0
                       THEN [heap |-> s.heap,
                             reports |-> Append(st.reports, EDEADLK),
                             ub |-> st.ub \/ s.ub]
                       ELSE [heap |-> [s.heap EXCEPT
                                         ![lk] = lk_add_before(@, ak)],
                             reports |-> st.reports,
                             ub |-> st.ub \/ s.ub]
         IN process_depends_from(nxt, tree, gc, held, i + 1, lk, ptr)

process_depends_from(st, tree, gc, held, i, lk, ptr) ==
    IF i > Len(held) THEN st
    ELSE LET ak == lksmith_find(tree, held[i])
             nxt ==
               IF ak = NULL
               THEN [st EXCEPT !.reports = Append(@, ENOMEM)]
               ELSE IF ak = lk
               THEN IF st.heap[ak].recursive THEN st
                    ELSE [st EXCEPT !.reports = Append(@, EDEADLK)]
               ELSE LET s == lksmith_search(st.heap, gc, ak, ptr)
                    IN IF s.ret # 0
                       THEN [heap |-> s.heap,
                             reports |-> Append(st.reports, EDEADLK),
                             ub |-> st.ub \/ s.ub]
                       ELSE [heap |-> [s.heap EXCEPT
                                         ![lk] = lk_add_before(@, ak)],
                             reports |-> st.reports,
                             ub |-> st.ub \/ s.ub]
         IN process_depends_from(nxt, tree, gc, held, i + 1, lk, ptr)

\* a pass that never takes a new colour
lksmith_prelock_process_depends_same_color(h, tree, gc, held, lk, ptr) ==
    process_depends_from([heap |-> h, reports |-> <<>>, ub |-> FALSE],
                         tree, 1, held, 1, lk, ptr)

lksmith_prelock_process_depends(h, tree, gc, held, lk, ptr) ==
    process_depends_from([heap |-> h, reports |-> <<>>, ub |-> FALSE],
                         tree, gc, held, 1, lk, ptr)

should_skip_dependency_processing(bt) ==
    \E i \in 1..Len(bt) :
        \/ bt[i] \in g_ignored_frames
        \/ \E pat \in g_ignored_frame_patterns : fnmatch(pat, bt[i]) = 0


(***************************************************************************)
(* The underlying primitive.  A thread really owns a lock from postlock    *)
(* with error 0 until its preunlock succeeds (the wrappers call the real   *)
(* unlock right after), and not while it is suspended in a condition wait. *)
(***************************************************************************)
RealCount(u, ptr) ==
    IF pend[u].kind = "condwait" /\ pend[u].ptr = ptr THEN 0
    ELSE Count(tls[u].held, ptr)
            - (IF pend[u].kind = "unlock" /\ pend[u].ptr = ptr THEN 1 ELSE 0)

CanAcquire(t, ptr) ==
    /\ \A u \in DOMAIN tls : u # t => RealCount(u, ptr) = 0
    /\ RealCount(t, ptr) > 0 =>
          /\ g_tree[ptr] # NULL
          /\ heap[g_tree[ptr]].recursive

Returns(op, t, ptr, ret) == [op |-> op, thread |-> t, ptr |-> ptr, ret |-> ret]

\* the entry point returns; none of the steps outside get_or_create_tls
\* touches the state of the initialization
Returned(op, t, ptr, ret) ==
    /\ last' = Returns(op, t, ptr, ret)
    /\ UNCHANGED init_vars

\* the process died inside the entry point
Abort(t, ptr) ==
    /\ Returned("abort", t, ptr, 0)
    /\ UNCHANGED <<g_tree, heap, g_color, tls, pend, reports>>

\* thread t can call an entry point: it is outside the validator, or inside
\* the backtrace capture of holder_create, which may call back
Ready(t) == ~crashed /\ pend[t].kind \in {"none", "capture"}

(***************************************************************************)
(* API functions.                                                          *)
(***************************************************************************)
lksmith_optional_init(t, ptr, recursive, sleeper) ==
    /\ Ready(t)
    /\ IF ~tls[t].intercept
       THEN /\ Returned("optional_init", t, ptr, 0)
            /\ reports' = <<>>
            /\ UNCHANGED <<g_tree, heap>>
       ELSE IF lksmith_find(g_tree, ptr) # NULL
       THEN /\ Returned("optional_init", t, ptr, EEXIST)
            /\ reports' = <<EEXIST>>
            /\ UNCHANGED <<g_tree, heap>>
       ELSE \E a \in FreeAddrs(heap) :
            /\ heap' = lksmith_insert(heap, a, ptr, recursive, sleeper)
            /\ g_tree' = [g_tree EXCEPT ![ptr] = a]
            /\ Returned("optional_init", t, ptr, 0)
            /\ reports' = <<>>
    /\ UNCHANGED <<g_color, tls, pend>>

\* a wrapper that hands every error of lksmith_destroy to its caller
pthread_mutex_destroy_strict(ret, r_ret) == IF ret # 0 THEN ret ELSE r_ret

\* the result of the wrapper pthread_mutex_destroy: ret is what
\* lksmith_destroy returned, r_ret what r_pthread_mutex_destroy returns
pthread_mutex_destroy(ret, r_ret) ==
    IF ret # 0 /\ ret # ENOENT THEN ret ELSE r_ret

\* RB_FOREACH(ak): lk_remove_before(ak, lk) on every record still in the tree
RemoveFromAll(h, tree, lk) ==
    [a \in DOMAIN h |->
        IF a # lk /\ \E p \in DOMAIN tree : tree[p] = a
        THEN lk_remove_before(h[a], lk).lk
        ELSE h[a]]

RemoveFromAllOob(h, tree, lk) ==
    \E a \in DOMAIN h :
        /\ a # lk
        /\ \E p \in DOMAIN tree : tree[p] = a
        /\ lk_remove_before(h[a], lk).oob

lksmith_destroy(t, ptr) ==
    /\ Ready(t)
    /\ LET lk == lksmith_find(g_tree, ptr)
       IN IF ~tls[t].intercept
          THEN /\ Returned("destroy", t, ptr, 0)
               /\ reports' = <<>>
               /\ UNCHANGED <<g_tree, heap, g_color, tls, pend>>
          ELSE IF lk = NULL
          THEN /\ Returned("destroy", t, ptr, ENOENT)
               /\ reports' = <<>>
               /\ UNCHANGED <<g_tree, heap, g_color, tls, pend>>
          ELSE IF heap[lk].holders # <<>>
          THEN /\ Returned("destroy", t, ptr, EBUSY)
               /\ reports' = <<EBUSY>>
               /\ UNCHANGED <<g_tree, heap, g_color, tls, pend>>
          ELSE LET tree2 == [g_tree EXCEPT ![ptr] = NULL]
                   h2 == RemoveFromAll(heap, tree2, lk)
               IN \/ /\ g_tree' = tree2
                     /\ heap' = [h2 EXCEPT ![lk].live = FALSE]
                     /\ Returned("destroy", t, ptr, 0)
                     /\ reports' = <<>>
                     /\ UNCHANGED <<g_color, tls, pend>>
                  \/ /\ RemoveFromAllOob(heap, tree2, lk)
                     /\ Abort(t, ptr)

\* lksmith_prelock from the return of holder_create on: holder_create has
\* put the saved value back into the intercept flag
lksmith_prelock_locked(t, ptr, sleeper, bt, intercept) ==
    \E a \in (IF lksmith_find(g_tree, ptr) # NULL
              THEN {lksmith_find(g_tree, ptr)}
              ELSE FreeAddrs(heap)) :
       LET h1 == IF lksmith_find(g_tree, ptr) # NULL THEN heap
                 ELSE lksmith_insert(heap, a, ptr, TRUE, sleeper)
           tree1 == [g_tree EXCEPT ![ptr] = a]
           skip == should_skip_dependency_processing(bt)
           gc == IF skip THEN g_color ELSE g_color + 1
           d == IF skip THEN [heap |-> h1, reports |-> <<>>, ub |-> FALSE]
                ELSE lksmith_prelock_process_depends(h1, tree1, gc,
                                           tls[t].held, a, ptr)
       IN \/ /\ g_tree' = tree1
             /\ g_color' = gc
             /\ heap' = [d.heap EXCEPT
                           ![a] = lk_holder_add(@, tls[t].name)]
             /\ reports' = d.reports
             /\ pend' = [pend EXCEPT ![t] =
                           [kind |-> "lock", ptr |-> ptr]]
             /\ Returned("prelock", t, ptr, 0)
             /\ tls' = [tls EXCEPT ![t].intercept = intercept]
          \/ /\ d.ub
             /\ Abort(t, ptr)

lksmith_prelock(t, ptr, sleeper, bt) ==
    /\ Ready(t)
    /\ IF ~tls[t].intercept
       THEN /\ Returned("prelock", t, ptr, 0)
            /\ reports' = <<>>
            /\ UNCHANGED <<g_tree, heap, g_color, tls, pend>>
       ELSE lksmith_prelock_locked(t, ptr, sleeper, bt, tls[t].intercept)

\* lksmith_prelock up to the backtrace capture inside holder_create: the
\* intercept flag is saved and cleared
holder_create(t, ptr) ==
    /\ ~crashed
    /\ pend[t].kind = "none"
    /\ tls[t].intercept
    /\ tls' = [tls EXCEPT ![t].intercept = FALSE]
    /\ pend' = [pend EXCEPT ![t] =
                  [kind |-> "capture", ptr |-> ptr,
                   intercept |-> tls[t].intercept]]
    /\ reports' = <<>>
    /\ Returned("holder_create", t, ptr, 0)
    /\ UNCHANGED <<g_tree, heap, g_color>>

\* the capture returns and lksmith_prelock goes on
holder_created(t, ptr, sleeper, bt) ==
    /\ ~crashed
    /\ pend[t].kind = "capture"
    /\ pend[t].ptr = ptr
    /\ lksmith_prelock_locked(t, ptr, sleeper, bt, pend[t].intercept)

\* a warning test that never looks at the spin_warn flag
spin_warn_due_every_time(rec, num_spins) ==
    /\ rec.sleeper
    /\ num_spins > 0

\* the test that guards the "spin lock held while taking a sleeping lock" report
spin_warn_due(rec, num_spins) ==
    /\ rec.sleeper
    /\ num_spins > 0
    /\ ~rec.spin_warn

lksmith_postlock(t, ptr, error) ==
    /\ ~crashed
    /\ tls[t].intercept => pend[t] = [kind |-> "lock", ptr |-> ptr]
    /\ (tls[t].intercept /\ error = 0) => CanAcquire(t, ptr)
    /\ LET lk == lksmith_find(g_tree, ptr)
       IN IF ~tls[t].intercept
          THEN /\ reports' = <<>>
               /\ Returned("postlock", t, ptr, 0)
               /\ UNCHANGED <<g_tree, heap, g_color, tls, pend>>
          ELSE IF lk = NULL
          THEN /\ reports' = <<EIO>>
               /\ Returned("postlock", t, ptr, 0)
               /\ pend' = [pend EXCEPT ![t] = NoPend]
               /\ UNCHANGED <<g_tree, heap, g_color, tls>>
          ELSE IF error # 0
          THEN LET r == lk_holder_remove(heap[lk], tls[t].name)
               IN IF r.fault THEN Abort(t, ptr)
                  ELSE /\ heap' = [heap EXCEPT ![lk] = r.lk]
                       /\ reports' = <<>>
                       /\ Returned("postlock", t, ptr, 0)
                       /\ pend' = [pend EXCEPT ![t] = NoPend]
                       /\ UNCHANGED <<g_tree, g_color, tls>>
          ELSE LET rec == heap[lk]
                   warn == spin_warn_due(rec, tls[t].num_spins)
               IN /\ heap' = [heap EXCEPT
                      ![lk].nlock = IF @ < MAX_NLOCK THEN @ + 1 ELSE @,
                      ![lk].spin_warn = IF warn THEN TRUE ELSE @]
                  /\ tls' = [tls EXCEPT
                      ![t].held = tls_append_held(@, ptr),
                      ![t].num_spins = IF ~rec.sleeper THEN @ + 1 ELSE @]
                  /\ reports' = IF warn THEN <<EWOULDBLOCK>> ELSE <<>>
                  /\ Returned("postlock", t, ptr, 0)
                  /\ pend' = [pend EXCEPT ![t] = NoPend]
                  /\ UNCHANGED <<g_tree, g_color>>

\* a preunlock that leaves num_spins as it is
lksmith_preunlock_no_decrement(t, ptr) ==
    /\ Ready(t)
    /\ LET lk == lksmith_find(g_tree, ptr)
       IN IF ~tls[t].intercept
          THEN /\ Returned("preunlock", t, ptr, 0)
               /\ reports' = <<>>
               /\ UNCHANGED <<tls, pend>>
          ELSE IF lk = NULL
          THEN /\ Returned("preunlock", t, ptr, ENOENT)
               /\ reports' = <<ENOENT>>
               /\ UNCHANGED <<tls, pend>>
          ELSE IF ~tls_contains_lid(tls[t].held, ptr)
          THEN /\ Returned("preunlock", t, ptr, EPERM)
               /\ reports' = <<EPERM>>
               /\ UNCHANGED <<tls, pend>>
          ELSE /\ pend' = [pend EXCEPT ![t] = [kind |-> "unlock", ptr |-> ptr]]
               /\ Returned("preunlock", t, ptr, 0)
               /\ reports' = <<>>
               /\ UNCHANGED tls
    /\ UNCHANGED <<g_tree, heap, g_color>>

lksmith_preunlock(t, ptr) ==
    /\ Ready(t)
    /\ LET lk == lksmith_find(g_tree, ptr)
       IN IF ~tls[t].intercept
          THEN /\ Returned("preunlock", t, ptr, 0)
               /\ reports' = <<>>
               /\ UNCHANGED <<tls, pend>>
          ELSE IF lk = NULL
          THEN /\ Returned("preunlock", t, ptr, ENOENT)
               /\ reports' = <<ENOENT>>
               /\ UNCHANGED <<tls, pend>>
          ELSE IF ~tls_contains_lid(tls[t].held, ptr)
          THEN /\ Returned("preunlock", t, ptr, EPERM)
               /\ reports' = <<EPERM>>
               /\ UNCHANGED <<tls, pend>>
          ELSE /\ tls' = [tls EXCEPT ![t].num_spins =
                            IF ~heap[lk].sleeper THEN @ - 1 ELSE @]
               /\ pend' = [pend EXCEPT ![t] = [kind |-> "unlock", ptr |-> ptr]]
               /\ Returned("preunlock", t, ptr, 0)
               /\ reports' = <<>>
    /\ UNCHANGED <<g_tree, heap, g_color>>

lksmith_postunlock(t, ptr) ==
    /\ ~crashed
    /\ tls[t].intercept => pend[t] = [kind |-> "unlock", ptr |-> ptr]
    /\ LET rm == tls_remove_held(tls[t].held, ptr)
           lk == lksmith_find(g_tree, ptr)
       IN IF ~tls[t].intercept
          THEN /\ reports' = <<>>
               /\ Returned("postunlock", t, ptr, 0)
               /\ UNCHANGED <<g_tree, heap, g_color, tls, pend>>
          ELSE IF rm.ret # 0
          THEN /\ reports' = <<EIO>>
               /\ Returned("postunlock", t, ptr, 0)
               /\ pend' = [pend EXCEPT ![t] = NoPend]
               /\ UNCHANGED <<g_tree, heap, g_color, tls>>
          ELSE IF lk = NULL
          THEN /\ tls' = [tls EXCEPT ![t].held = rm.held]
               /\ reports' = <<EIO>>
               /\ Returned("postunlock", t, ptr, 0)
               /\ pend' = [pend EXCEPT ![t] = NoPend]
               /\ UNCHANGED <<g_tree, heap, g_color>>
          ELSE LET r == lk_holder_remove(heap[lk], tls[t].name)
               IN IF r.fault THEN Abort(t, ptr)
                  ELSE /\ tls' = [tls EXCEPT ![t].held = rm.held]
                       /\ heap' = [heap EXCEPT ![lk] = r.lk]
                       /\ reports' = <<>>
                       /\ Returned("postunlock", t, ptr, 0)
                       /\ pend' = [pend EXCEPT ![t] = NoPend]
                       /\ UNCHANGED <<g_tree, g_color>>

\* a check that looks through every thread's held list
lksmith_check_locked_any_thread(t, ptr) ==
    IF \E u \in DOMAIN tls : tls_contains_lid(tls[u].held, ptr) THEN 0 ELSE -1

\* a check that always answers "held"
lksmith_check_locked_always(t, ptr) == 0

\* a check that does not look at the intercept flag
lksmith_check_locked_no_guard(t, ptr) ==
    IF tls_contains_lid(tls[t].held, ptr) THEN 0 ELSE -1

lksmith_check_locked(t, ptr) ==
    IF ~tls[t].intercept THEN 0
    ELSE IF tls_contains_lid(tls[t].held, ptr) THEN 0 ELSE -1

check_locked(t, ptr) ==
    /\ Ready(t)
    /\ Returned("check_locked", t, ptr, lksmith_check_locked(t, ptr))
    /\ reports' = <<>>
    /\ UNCHANGED <<g_tree, heap, g_color, tls, pend>>

(***************************************************************************)
(* handler.c: pthread_cond_wait and pthread_cond_timedwait.  The           *)
(* underlying wait gives up the mutex, suspends the caller and takes the   *)
(* mutex again before it returns.                                          *)
(***************************************************************************)
pthread_cond_wait(t, ptr) ==
    /\ Ready(t)
    /\ LET ret == lksmith_check_locked(t, ptr)
       IN IF ret = -1
          THEN /\ reports' = <<EPERM>>
               /\ Returned("cond_wait", t, ptr, EPERM)
               /\ UNCHANGED pend
          ELSE /\ reports' = <<>>
               /\ Returned("r_cond_wait", t, ptr, 0)
               /\ pend' = [pend EXCEPT ![t] =
                             [kind |-> "condwait", ptr |-> ptr]]
    /\ UNCHANGED <<g_tree, heap, g_color, tls>>

r_pthread_cond_wait_return(t, ptr) ==
    /\ ~crashed
    /\ pend[t] = [kind |-> "condwait", ptr |-> ptr]
    /\ \A u \in DOMAIN tls : u # t => RealCount(u, ptr) = 0
    /\ pend' = [pend EXCEPT ![t] = NoPend]
    /\ reports' = <<>>
    /\ Returned("cond_wait", t, ptr, 0)
    /\ UNCHANGED <<g_tree, heap, g_color, tls>>

(***************************************************************************)
(* The program.  Locks are typed objects driven through the wrappers of    *)
(* handler.c: lock 1 is a pthread_spinlock_t, the others are               *)
(* pthread_mutex_t (initialised with or without a recursive attribute, or  *)
(* statically and then created lazily by the first prelock).               *)
(***************************************************************************)
IsSpin(ptr) == ptr = 1

InitProps(ptr) ==
    IF IsSpin(ptr) THEN {[recursive |-> FALSE, sleeper |-> FALSE]}
    ELSE {[recursive |-> r, sleeper |-> TRUE] : r \in BOOLEAN}

InitWith(T, L) ==
    /\ g_tree = [p \in L |-> NULL]
    /\ heap = [a \in L |-> FreshLock]
    /\ g_color = 0
    /\ tls = [t \in T |-> FreshTls(t)]
    /\ pend = [t \in T |-> NoPend]
    /\ reports = <<>>
    /\ last = Returns("none", 0, NULL, 0)
    /\ g_init_state_lock = 0
    /\ g_initialized = 1
    /\ init_runs = 1
    /\ tls_made = [t \in T |-> 1]
    /\ improved_tls = TRUE

Init == InitWith(Threads, Locks)

Next ==
    \E t \in Threads, ptr \in Locks :
        \/ \E pr \in InitProps(ptr) :
              lksmith_optional_init(t, ptr, pr.recursive, pr.sleeper)
        \/ lksmith_destroy(t, ptr)
        \/ /\ g_color < MaxColor
           /\ lksmith_prelock(t, ptr, ~IsSpin(ptr), <<"main">>)
        \/ \E e \in {0, EBUSY} : lksmith_postlock(t, ptr, e)
        \/ lksmith_preunlock(t, ptr)
        \/ lksmith_postunlock(t, ptr)
        \/ check_locked(t, ptr)
        \/ pthread_cond_wait(t, ptr)
        \/ r_pthread_cond_wait_return(t, ptr)

Spec == Init /\ [][Next]_vars

(***************************************************************************)
(* Programs that use statically initialised mutexes only, so that every    *)
(* record is created lazily by prelock.                                    *)
(*                                                                         *)
(* SpecOrdered: every thread takes its locks in increasing token order,    *)
(* releases them in any order and may destroy any lock.                    *)
(***************************************************************************)
OrdThreads == 2
OrdLocks == 3
OrdMaxColor == 4

HeldBelow(t, ptr) == \A i \in 1..Len(tls[t].held) : tls[t].held[i] < ptr

OrderedInit == InitWith(1..OrdThreads, 1..OrdLocks)

OrderedNext ==
    \E t \in 1..OrdThreads, ptr \in 1..OrdLocks :
        \/ lksmith_destroy(t, ptr)
        \/ /\ g_color < OrdMaxColor
           /\ HeldBelow(t, ptr)
           /\ lksmith_prelock(t, ptr, TRUE, <<"main">>)
        \/ lksmith_postlock(t, ptr, 0)
        \/ /\ tls_contains_lid(tls[t].held, ptr)
           /\ lksmith_preunlock(t, ptr)
        \/ lksmith_postunlock(t, ptr)

SpecOrdered == OrderedInit /\ [][OrderedNext]_vars

(***************************************************************************)
(* SpecInversion: one thread takes locks it does not hold in any order and *)
(* releases the most recent one first; no lock is ever destroyed.          *)
(***************************************************************************)
InvLocks == 3
InvMaxColor == 6

InversionInit == InitWith({1}, 1..InvLocks)

InversionNext ==
    \E ptr \in 1..InvLocks :
        \/ /\ g_color < InvMaxColor
           /\ ~tls_contains_lid(tls[1].held, ptr)
           /\ lksmith_prelock(1, ptr, TRUE, <<"main">>)
        \/ lksmith_postlock(1, ptr, 0)
        \/ /\ tls[1].held # <<>>
           /\ tls[1].held[Len(tls[1].held)] = ptr
           /\ lksmith_preunlock(1, ptr)
        \/ lksmith_postunlock(1, ptr)

SpecInversion == InversionInit /\ [][InversionNext]_vars

TypeOK ==
    /\ g_color \in Nat
    /\ \A p \in DOMAIN g_tree : g_tree[p] \in DOMAIN heap \cup {NULL}


(***************************************************************************)
(* SpecDestroy: one thread takes its locks in increasing token order,      *)
(* releases the most recent one first and, while it holds no lock, may     *)
(* destroy any lock.                                                       *)
(***************************************************************************)
DestroyLocks == 4
DestroyMaxColor == 4

DestroyInit == InitWith({1}, 1..DestroyLocks)

DestroyNext ==
    \E ptr \in 1..DestroyLocks :
        \/ /\ tls[1].held = <<>>
           /\ lksmith_destroy(1, ptr)
        \/ /\ g_color < DestroyMaxColor
           /\ HeldBelow(1, ptr)
           /\ lksmith_prelock(1, ptr, TRUE, <<"main">>)
        \/ lksmith_postlock(1, ptr, 0)
        \/ /\ tls[1].held # <<>>
           /\ tls[1].held[Len(tls[1].held)] = ptr
           /\ lksmith_preunlock(1, ptr)
        \/ lksmith_postunlock(1, ptr)

SpecDestroy == DestroyInit /\ [][DestroyNext]_vars

(***************************************************************************)
(* SpecRing: error_unit.c, test_big_inversion, with blocking locks.  There *)
(* are n threads and n locks; thread t takes lock t, waits until every     *)
(* thread holds its own lock, and then asks for the lock of its successor, *)
(* which is never released.                                                *)
(***************************************************************************)
RingMax == 4

RingSucc(t) == (t % Cardinality(DOMAIN tls)) + 1

RingInit == \E n \in 2..RingMax : InitWith(1..n, 1..n)

RingNext ==
    \E t \in DOMAIN tls :
        \/ /\ tls[t].held = <<>>
           /\ lksmith_prelock(t, t, TRUE, <<"main">>)
        \/ lksmith_postlock(t, t, 0)
        \/ /\ \A u \in DOMAIN tls : tls[u].held = <<u>>
           /\ lksmith_prelock(t, RingSucc(t), TRUE, <<"main">>)

SpecRing == RingInit /\ [][RingNext]_vars

(***************************************************************************)
(* SpecCallers: one thread drives the validator API directly, with any     *)
(* properties at initialisation, any sleeper argument at prelock and       *)
(* callers with and without ignored frames on their stack.  It unlocks     *)
(* only what it holds and destroys nothing.                                *)
(***************************************************************************)
CallLocks == 2
CallMaxColor == 2
CallMaxHeld == 2

CallersInit == InitWith({1}, 1..CallLocks)

CallersNext ==
    \E ptr \in 1..CallLocks :
        \/ \E r \in BOOLEAN, s \in BOOLEAN :
              lksmith_optional_init(1, ptr, r, s)
        \/ \E s \in BOOLEAN, bt \in Backtraces :
              /\ Len(tls[1].held) < CallMaxHeld
              /\ g_color < CallMaxColor \/ should_skip_dependency_processing(bt)
              /\ lksmith_prelock(1, ptr, s, bt)
        \/ \E e \in {0, EBUSY} : lksmith_postlock(1, ptr, e)
        \/ /\ tls_contains_lid(tls[1].held, ptr)
           /\ lksmith_preunlock(1, ptr)
        \/ lksmith_postunlock(1, ptr)

SpecCallers == CallersInit /\ [][CallersNext]_vars

(***************************************************************************)
(* SpecNested: one thread and statically initialised mutexes, whose lazily *)
(* created records are recursive.  The thread takes a lock again while it  *)
(* holds it, takes locks in non-decreasing token order, releases the most  *)
(* recent one first and, while it holds no lock, may destroy any lock.     *)
(***************************************************************************)
NestLocks == 3
NestMaxColor == 4

HeldAtMost(t, ptr) == \A i \in 1..Len(tls[t].held) : tls[t].held[i] <= ptr

NestedInit == InitWith({1}, 1..NestLocks)

NestedNext ==
    \E ptr \in 1..NestLocks :
        \/ /\ tls[1].held = <<>>
           /\ lksmith_destroy(1, ptr)
        \/ /\ g_color < NestMaxColor
           /\ HeldAtMost(1, ptr)
           /\ lksmith_prelock(1, ptr, TRUE, <<"main">>)
        \/ lksmith_postlock(1, ptr, 0)
        \/ /\ tls[1].held # <<>>
           /\ tls[1].held[Len(tls[1].held)] = ptr
           /\ lksmith_preunlock(1, ptr)
        \/ lksmith_postunlock(1, ptr)

SpecNested == NestedInit /\ [][NestedNext]_vars

(***************************************************************************)
(* The validator's own mutexes.  A thread that is inside destroy or inside *)
(* a report carries in pend the set of internal mutexes it has locked;     *)
(* r_pthread_mutex_lock on one of them waits until no other thread has it. *)
(***************************************************************************)
LocksOf(t) == IF "locks" \in DOMAIN pend[t] THEN pend[t].locks ELSE {}

LockFree(l) == \A u \in DOMAIN tls : l \notin LocksOf(u)

\* lksmith_destroy up to r_pthread_mutex_lock(&g_tree_lock)
destroy_lock(t, ptr) ==
    /\ Ready(t)
    /\ tls[t].intercept
    /\ LockFree("g_tree_lock")
    /\ pend' = [pend EXCEPT ![t] = [kind |-> "destroy", ptr |-> ptr,
                                   locks |-> {"g_tree_lock"}]]
    /\ UNCHANGED <<g_tree, heap, g_color, tls, reports, last>>
    /\ UNCHANGED init_vars

\* lksmith_destroy under g_tree_lock: the lookup, the holders test with its
\* call of lksmith_error, or the removal and the unlock
destroy_locked(t) ==
    /\ ~crashed
    /\ pend[t].kind = "destroy"
    /\ LET ptr == pend[t].ptr
           lk == lksmith_find(g_tree, ptr)
       IN IF lk = NULL
          THEN /\ Returned("destroy", t, ptr, ENOENT)
               /\ reports' = <<>>
               /\ pend' = [pend EXCEPT ![t] = NoPend]
               /\ UNCHANGED <<g_tree, heap, g_color, tls>>
          ELSE IF heap[lk].holders # <<>>
          THEN /\ pend' = [pend EXCEPT ![t] =
                             [kind |-> "report", ptr |-> ptr,
                              op |-> "destroy", err |-> EBUSY,
                              locks |-> pend[t].locks]]
               /\ UNCHANGED <<g_tree, heap, g_color, tls, reports, last>>
               /\ UNCHANGED init_vars
          ELSE LET tree2 == [g_tree EXCEPT ![ptr] = NULL]
                   h2 == RemoveFromAll(heap, tree2, lk)
               IN \/ /\ g_tree' = tree2
                     /\ heap' = [h2 EXCEPT ![lk].live = FALSE]
                     /\ Returned("destroy", t, ptr, 0)
                     /\ reports' = <<>>
                     /\ pend' = [pend EXCEPT ![t] = NoPend]
                     /\ UNCHANGED <<g_color, tls>>
                  \/ /\ RemoveFromAllOob(heap, tree2, lk)
                     /\ Abort(t, ptr)

\* pthread_cond_wait on a mutex the caller does not hold, up to its call of
\* lksmith_error
cond_wait_not_held(t, ptr) ==
    /\ Ready(t)
    /\ lksmith_check_locked(t, ptr) = -1
    /\ pend' = [pend EXCEPT ![t] =
                  [kind |-> "report", ptr |-> ptr, op |-> "cond_wait",
                   err |-> EPERM, locks |-> {}]]
    /\ UNCHANGED <<g_tree, heap, g_color, tls, reports, last>>
    /\ UNCHANGED init_vars

\* lksmith_errora: r_pthread_mutex_lock(&g_error_lock)
lksmith_errora(t) ==
    /\ ~crashed
    /\ pend[t].kind = "report"
    /\ LockFree("g_error_lock")
    /\ pend' = [pend EXCEPT ![t] =
                  [@ EXCEPT !.kind = "errora",
                            !.locks = @ \cup {"g_error_lock"}]]
    /\ UNCHANGED <<g_tree, heap, g_color, tls, reports, last>>
    /\ UNCHANGED init_vars

\* lksmith_errora_unlocked with LKSMITH_LOG=callback://...: g_error_cb is
\* entered
lksmith_errora_unlocked(t) ==
    /\ ~crashed
    /\ pend[t].kind = "errora"
    /\ pend' = [pend EXCEPT ![t] = [@ EXCEPT !.kind = "callback"]]
    /\ reports' = <<pend[t].err>>
    /\ UNCHANGED <<g_tree, heap, g_color, tls, last>>
    /\ UNCHANGED init_vars

\* g_error_cb returns and lksmith_errora unlocks g_error_lock
lksmith_errora_unlock(t) ==
    /\ ~crashed
    /\ pend[t].kind = "callback"
    /\ pend' = [pend EXCEPT ![t] =
                  [@ EXCEPT !.kind = "reported",
                            !.locks = @ \ {"g_error_lock"}]]
    /\ UNCHANGED <<g_tree, heap, g_color, tls, reports, last>>
    /\ UNCHANGED init_vars

\* the rest of the entry point after lksmith_error has returned: destroy
\* unlocks g_tree_lock and returns EBUSY, pthread_cond_wait returns EPERM
report_return(t) ==
    /\ ~crashed
    /\ pend[t].kind = "reported"
    /\ Returned(pend[t].op, t, pend[t].ptr, pend[t].err)
    /\ pend' = [pend EXCEPT ![t] = NoPend]
    /\ UNCHANGED <<g_tree, heap, g_color, tls, reports>>

(***************************************************************************)
(* SpecSink: two threads lock, unlock and destroy mutexes and wait on      *)
(* condition variables, with reports delivered to a user callback; destroy *)
(* and the report path are followed lock by lock.                          *)
(***************************************************************************)
SinkThreads == 2
SinkLocks == 2
SinkMaxColor == 2

InternalLocksFree == LockFree("g_tree_lock") /\ LockFree("g_error_lock")

SinkInit == InitWith(1..SinkThreads, 1..SinkLocks)

SinkNext ==
    \E t \in 1..SinkThreads :
        \/ \E ptr \in 1..SinkLocks :
              \/ /\ InternalLocksFree
                 /\ g_color < SinkMaxColor
                 /\ ~tls_contains_lid(tls[t].held, ptr)
                 /\ lksmith_prelock(t, ptr, TRUE, <<"main">>)
              \/ /\ InternalLocksFree
                 /\ lksmith_postlock(t, ptr, 0)
              \/ /\ InternalLocksFree
                 /\ tls_contains_lid(tls[t].held, ptr)
                 /\ lksmith_preunlock(t, ptr)
              \/ /\ InternalLocksFree
                 /\ lksmith_postunlock(t, ptr)
              \/ destroy_lock(t, ptr)
              \/ cond_wait_not_held(t, ptr)
        \/ destroy_locked(t)
        \/ lksmith_errora(t)
        \/ lksmith_errora_unlocked(t)
        \/ lksmith_errora_unlock(t)
        \/ report_return(t)

SpecSink == SinkInit /\ [][SinkNext]_vars

(***************************************************************************)
(* SpecBadWait: error_unit.c, test_bad_cond_wait.  Two threads lock a      *)
(* mutex each and wait on one shared condition variable.  Waiting on a     *)
(* condition variable on which another thread waits with a different       *)
(* mutex is undefined for the underlying pthread_cond_wait: it returns     *)
(* EINVAL or it waits.                                                     *)
(***************************************************************************)
WaitThreads == 2
WaitLocks == 2
WaitMaxColor == 3

\* another thread is suspended on the condition variable with mutex q # ptr
OtherMutexWaiting(t, ptr) ==
    \E u \in DOMAIN tls :
        /\ u # t
        /\ pend[u].kind = "condwait"
        /\ pend[u].ptr # ptr

\* the wrapper pthread_cond_wait called on the shared condition variable
pthread_cond_wait_shared(t, ptr) ==
    /\ Ready(t)
    /\ LET ret == lksmith_check_locked(t, ptr)
       IN IF ret = -1
          THEN /\ reports' = <<EPERM>>
               /\ Returned("cond_wait", t, ptr, EPERM)
               /\ UNCHANGED pend
          ELSE \/ /\ OtherMutexWaiting(t, ptr)
                  /\ reports' = <<>>
                  /\ Returned("cond_wait", t, ptr, EINVAL)
                  /\ UNCHANGED pend
               \/ /\ reports' = <<>>
                  /\ Returned("r_cond_wait", t, ptr, 0)
                  /\ pend' = [pend EXCEPT ![t] =
                                [kind |-> "condwait", ptr |-> ptr]]
    /\ UNCHANGED <<g_tree, heap, g_color, tls>>

BadWaitInit == InitWith(1..WaitThreads, 1..WaitLocks)

BadWaitNext ==
    \E t \in 1..WaitThreads, ptr \in 1..WaitLocks :
        \/ /\ g_color < WaitMaxColor
           /\ tls[t].held = <<>>
           /\ lksmith_prelock(t, ptr, TRUE, <<"main">>)
        \/ lksmith_postlock(t, ptr, 0)
        \/ pthread_cond_wait_shared(t, ptr)
        \/ r_pthread_cond_wait_return(t, ptr)
        \/ /\ tls_contains_lid(tls[t].held, ptr)
           /\ lksmith_preunlock(t, ptr)
        \/ lksmith_postunlock(t, ptr)

SpecBadWait == BadWaitInit /\ [][BadWaitNext]_vars

(***************************************************************************)
(* SpecRepeat: one thread takes locks it does not hold in any order and    *)
(* releases the most recent one first; once lock 1 has been taken, the     *)
(* thread takes it again only while it holds another lock.  With lock 3    *)
(* unused, lock 1 enters the before array of lock 2 during its first       *)
(* acquisition or never, so every later acquisition of lock 1 that is      *)
(* reported follows acquisitions that were reported too.                   *)
(***************************************************************************)
RepLocks == 3
RepMaxColor == 7

RepeatInit == InitWith({1}, 1..RepLocks)

TakenBefore(ptr) == g_tree[ptr] # NULL /\ heap[g_tree[ptr]].nlock > 0

RepeatNext ==
    \E ptr \in 1..RepLocks :
        \/ /\ g_color < RepMaxColor
           /\ ~tls_contains_lid(tls[1].held, ptr)
           /\ (ptr = 1 /\ TakenBefore(1)) => tls[1].held # <<>>
           /\ lksmith_prelock(1, ptr, TRUE, <<"main">>)
        \/ lksmith_postlock(1, ptr, 0)
        \/ /\ tls[1].held # <<>>
           /\ tls[1].held[Len(tls[1].held)] = ptr
           /\ lksmith_preunlock(1, ptr)
        \/ lksmith_postunlock(1, ptr)

SpecRepeat == RepeatInit /\ [][RepeatNext]_vars

(***************************************************************************)
(* SpecConverge: two threads each take lock 1, then lock 2, then lock 3,   *)
(* a lock only while they hold the one below it, and release their locks   *)
(* in any order; no lock is ever destroyed.  A thread that has released    *)
(* lock 1 and keeps lock 2 lets the other thread follow it.                *)
(***************************************************************************)
ConvThreads == 2
ConvLocks == 3
ConvMaxColor == 5

ConvergeInit == InitWith(1..ConvThreads, 1..ConvLocks)

HoldsLockBelow(t, ptr) ==
    /\ ~tls_contains_lid(tls[t].held, ptr)
    /\ ptr > 1 => tls_contains_lid(tls[t].held, ptr - 1)

ConvergeNext ==
    \E t \in 1..ConvThreads, ptr \in 1..ConvLocks :
        \/ /\ g_color < ConvMaxColor
           /\ HoldsLockBelow(t, ptr)
           /\ lksmith_prelock(t, ptr, TRUE, <<"main">>)
        \/ lksmith_postlock(t, ptr, 0)
        \/ /\ tls_contains_lid(tls[t].held, ptr)
           /\ lksmith_preunlock(t, ptr)
        \/ lksmith_postunlock(t, ptr)

SpecConverge == ConvergeInit /\ [][ConvergeNext]_vars

(***************************************************************************)
(* SpecRename: thread_unit.c.  Threads change their names between their    *)
(* locking operations; a holder keeps the name its thread had at prelock.  *)
(***************************************************************************)
RenameThreads == 2
RenameLocks == 2
RenameMaxColor == 3
\* the default names of the threads and one more
ThreadNames == 1..(RenameThreads + 1)

lksmith_set_thread_name(t, name) ==
    /\ Ready(t)
    /\ tls' = [tls EXCEPT ![t].name = name]
    /\ reports' = <<>>
    /\ Returned("set_thread_name", t, NULL, 0)
    /\ UNCHANGED <<g_tree, heap, g_color, pend>>

RenameInit == InitWith(1..RenameThreads, 1..RenameLocks)

RenameNext ==
    \E t \in 1..RenameThreads, ptr \in 1..RenameLocks :
        \/ \E name \in ThreadNames \ {tls[t].name} :
              lksmith_set_thread_name(t, name)
        \/ /\ g_color < RenameMaxColor
           /\ lksmith_prelock(t, ptr, TRUE, <<"main">>)
        \/ \E e \in {0, EBUSY} : lksmith_postlock(t, ptr, e)
        \/ /\ tls_contains_lid(tls[t].held, ptr)
           /\ lksmith_preunlock(t, ptr)
        \/ lksmith_postunlock(t, ptr)

SpecRename == RenameInit /\ [][RenameNext]_vars

(***************************************************************************)
(* SpecCapture: the backtrace capture of holder_create, inside prelock,    *)
(* is a step of its own, during which the capturing thread may call any    *)
(* entry point again (the capture allocates and locks).                    *)
(***************************************************************************)
CaptureThreads == 2
CaptureLocks == 2
CaptureMaxColor == 2

CaptureInit == InitWith(1..CaptureThreads, 1..CaptureLocks)

CaptureNext ==
    \E t \in 1..CaptureThreads, ptr \in 1..CaptureLocks :
        \/ /\ g_color < CaptureMaxColor
           /\ holder_create(t, ptr)
        \/ holder_created(t, ptr, TRUE, <<"main">>)
        \/ /\ ~tls[t].intercept
           /\ lksmith_prelock(t, ptr, TRUE, <<"main">>)
        \/ lksmith_optional_init(t, ptr, FALSE, TRUE)
        \/ lksmith_destroy(t, ptr)
        \/ lksmith_postlock(t, ptr, 0)
        \/ lksmith_preunlock(t, ptr)
        \/ lksmith_postunlock(t, ptr)
        \/ check_locked(t, ptr)

SpecCapture == CaptureInit /\ [][CaptureNext]_vars

(***************************************************************************)
(* SpecInit: get_or_create_tls, a step at a time, from the start of the    *)
(* process: no thread has a lksmith_tls and lksmith_init has not run.      *)
(* Every entry point calls get_or_create_tls first.  The position of a     *)
(* thread inside it is pend[t].kind: "spin" (in simple_spin_lock),         *)
(* "locked", "init" (inside lksmith_init), "unlock", "key" (after the      *)
(* unlock).                                                                *)
(***************************************************************************)
InitThreads == 3
InitLocks == 1

\* an acquisition that does not look at the lock word
simple_spin_lock_blind(lock) == [acquired |-> TRUE, lock |-> 1]

\* __sync_bool_compare_and_swap(lock, 0, 1); the caller retries until it
\* succeeds
simple_spin_lock(lock) == [acquired |-> lock = 0, lock |-> 1]

\* __sync_bool_compare_and_swap(lock, 1, 0)
simple_spin_unlock(lock) == IF lock = 1 THEN 0 ELSE lock

At(t, kind) == [pend EXCEPT ![t] = [kind |-> kind, ptr |-> NULL]]

get_or_create_tls(t) ==
    /\ ~crashed
    /\ pend[t].kind = "none"
    /\ IF improved_tls /\ t \in DOMAIN tls
       THEN /\ last' = Returns("get_or_create_tls", t, NULL, 0)
            /\ UNCHANGED pend
       ELSE /\ pend' = At(t, "spin")
            /\ UNCHANGED last
    /\ reports' = <<>>
    /\ UNCHANGED <<g_tree, heap, g_color, tls>>
    /\ UNCHANGED init_vars

get_or_create_tls_lock(t) ==
    /\ pend[t].kind = "spin"
    /\ LET r == simple_spin_lock(g_init_state_lock)
       IN /\ r.acquired
          /\ g_init_state_lock' = r.lock
    /\ pend' = At(t, "locked")
    /\ UNCHANGED <<g_tree, heap, g_color, tls, reports, last>>
    /\ UNCHANGED <<g_initialized, init_runs, tls_made, improved_tls>>

get_or_create_tls_locked(t) ==
    /\ pend[t].kind = "locked"
    /\ IF g_initialized = 0
       THEN /\ pend' = At(t, "init")
            /\ init_runs' = init_runs + 1
       ELSE /\ pend' = At(t, "unlock")
            /\ UNCHANGED init_runs
    /\ UNCHANGED <<g_tree, heap, g_color, tls, reports, last>>
    /\ UNCHANGED <<g_init_state_lock, g_initialized, tls_made, improved_tls>>

\* the ignore lists, the key and g_tree_lock are set up; the last statement
\* sets g_initialized
lksmith_init(t) ==
    /\ pend[t].kind = "init"
    /\ g_initialized' = 1
    /\ pend' = At(t, "unlock")
    /\ UNCHANGED <<g_tree, heap, g_color, tls, reports, last>>
    /\ UNCHANGED <<g_init_state_lock, init_runs, tls_made, improved_tls>>

get_or_create_tls_unlock(t) ==
    /\ pend[t].kind = "unlock"
    /\ g_init_state_lock' = simple_spin_unlock(g_init_state_lock)
    /\ pend' = At(t, "key")
    /\ UNCHANGED <<g_tree, heap, g_color, tls, reports, last>>
    /\ UNCHANGED <<g_initialized, init_runs, tls_made, improved_tls>>

\* pthread_getspecific (without HAVE_IMPROVED_TLS), or calloc and
\* pthread_setspecific
get_or_create_tls_return(t) ==
    /\ pend[t].kind = "key"
    /\ IF ~improved_tls /\ t \in DOMAIN tls
       THEN UNCHANGED <<tls, tls_made>>
       ELSE /\ tls' = [u \in DOMAIN tls \cup {t} |->
                         IF u = t THEN FreshTls(t) ELSE tls[u]]
            /\ tls_made' = [tls_made EXCEPT ![t] = @ + 1]
    /\ pend' = [pend EXCEPT ![t] = NoPend]
    /\ last' = Returns("get_or_create_tls", t, NULL, 0)
    /\ reports' = <<>>
    /\ UNCHANGED <<g_tree, heap, g_color>>
    /\ UNCHANGED <<g_init_state_lock, g_initialized, init_runs, improved_tls>>

InitInit ==
    /\ g_tree = [p \in 1..InitLocks |-> NULL]
    /\ heap = [a \in 1..InitLocks |-> FreshLock]
    /\ g_color = 0
    /\ tls = << >>
    /\ pend = [t \in 1..InitThreads |-> NoPend]
    /\ reports = <<>>
    /\ last = Returns("none", 0, NULL, 0)
    /\ g_init_state_lock = 0
    /\ g_initialized = 0
    /\ init_runs = 0
    /\ tls_made = [t \in 1..InitThreads |-> 0]
    /\ improved_tls \in BOOLEAN

InitNext ==
    \E t \in 1..InitThreads :
        \/ get_or_create_tls(t)
        \/ get_or_create_tls_lock(t)
        \/ get_or_create_tls_locked(t)
        \/ lksmith_init(t)
        \/ get_or_create_tls_unlock(t)
        \/ get_or_create_tls_return(t)
        \/ /\ t \in DOMAIN tls
           /\ last = Returns("get_or_create_tls", t, NULL, 0)
           /\ \E ptr \in 1..InitLocks :
                 lksmith_optional_init(t, ptr, FALSE, TRUE)

SpecInit == InitInit /\ [][InitNext]_vars

(***************************************************************************)
(* SpecStale: one thread that destroys statically initialised mutexes and  *)
(* goes on taking the others, in any order, so that a later cycle search   *)
(* walks the before arrays that the destroy has left behind.               *)
(***************************************************************************)
StaleLocks == 3
StaleMaxColor == 5

StaleInit == InitWith({1}, 1..StaleLocks)

StaleNext ==
    \E ptr \in 1..StaleLocks :
        \/ /\ tls[1].held = <<>>
           /\ lksmith_destroy(1, ptr)
        \/ /\ g_color < StaleMaxColor
           /\ lksmith_prelock(1, ptr, TRUE, <<"main">>)
        \/ lksmith_postlock(1, ptr, 0)
        \/ /\ tls[1].held # <<>>
           /\ tls[1].held[Len(tls[1].held)] = ptr
           /\ lksmith_preunlock(1, ptr)
        \/ lksmith_postunlock(1, ptr)

SpecStale == StaleInit /\ [][StaleNext]_vars

(***************************************************************************)
(* SpecReinit: a thread that calls the wrapper pthread_mutex_init of       *)
(* handler.c, also on mutexes that are registered already.  r_ret is what  *)
(* pthread_mutex_real_init returns.  When lksmith_optional_init fails the  *)
(* wrapper calls pthread_mutex_destroy, the wrapper of the same file, on   *)
(* the mutex, and that one calls lksmith_destroy.                          *)
(***************************************************************************)
ReinitLocks == 2
ReinitMaxColor == 3

pthread_mutex_init(t, ptr, recursive, r_ret) ==
    /\ Ready(t)
    /\ LET lk == lksmith_find(g_tree, ptr)
       IN IF r_ret # 0
          THEN /\ Returned("mutex_init", t, ptr, r_ret)
               /\ reports' = <<r_ret>>
               /\ UNCHANGED <<g_tree, heap>>
          ELSE IF ~tls[t].intercept
          THEN /\ Returned("mutex_init", t, ptr, 0)
               /\ reports' = <<>>
               /\ UNCHANGED <<g_tree, heap>>
          ELSE IF lk = NULL
          THEN \E a \in FreeAddrs(heap) :
               /\ heap' = lksmith_insert(heap, a, ptr, recursive, TRUE)
               /\ g_tree' = [g_tree EXCEPT ![ptr] = a]
               /\ Returned("mutex_init", t, ptr, 0)
               /\ reports' = <<>>
          ELSE IF heap[lk].holders # <<>>
          THEN /\ Returned("mutex_init", t, ptr, EEXIST)
               /\ reports' = <<EEXIST, EBUSY>>
               /\ UNCHANGED <<g_tree, heap>>
          ELSE LET tree2 == [g_tree EXCEPT ![ptr] = NULL]
                   h2 == RemoveFromAll(heap, tree2, lk)
               IN \/ /\ g_tree' = tree2
                     /\ heap' = [h2 EXCEPT ![lk].live = FALSE]
                     /\ Returned("mutex_init", t, ptr, EEXIST)
                     /\ reports' = <<EEXIST>>
                  \/ /\ RemoveFromAllOob(heap, tree2, lk)
                     /\ last' = Returns("abort", t, ptr, 0)
                     /\ UNCHANGED init_vars
                     /\ UNCHANGED <<g_tree, heap, reports>>
    /\ UNCHANGED <<g_color, tls, pend>>

ReinitInit == InitWith({1}, 1..ReinitLocks)

ReinitNext ==
    \E ptr \in 1..ReinitLocks :
        \/ \E recursive \in BOOLEAN, r_ret \in {0, ENOMEM} :
              pthread_mutex_init(1, ptr, recursive, r_ret)
        \/ /\ g_color < ReinitMaxColor
           /\ lksmith_prelock(1, ptr, TRUE, <<"main">>)
        \/ lksmith_postlock(1, ptr, 0)
        \/ /\ tls[1].held # <<>>
           /\ tls[1].held[Len(tls[1].held)] = ptr
           /\ lksmith_preunlock(1, ptr)
        \/ lksmith_postunlock(1, ptr)

SpecReinit == ReinitInit /\ [][ReinitNext]_vars

(***************************************************************************)
(* SpecLive: two threads rename themselves, lock, unlock and destroy a     *)
(* mutex and wait on a condition variable.  The backtrace capture of       *)
(* prelock, destroy and the report path are followed step by step; the     *)
(* other entry points lock g_tree_lock, act and unlock it in one step,     *)
(* which is possible when the internal mutexes are free.  The scheduler is *)
(* fair: a thread inside the validator goes on, the callback returns, and  *)
(* a thread that waits for an internal mutex which becomes free again and  *)
(* again gets it.                                                          *)
(***************************************************************************)
LiveThreads == 2
LiveLocks == 1
LiveMaxColor == 3

LiveInit == InitWith(1..LiveThreads, 1..LiveLocks)

prelock_locked(t, ptr) ==
    /\ InternalLocksFree
    /\ holder_created(t, ptr, TRUE, <<"main">>)

LiveNext ==
    \E t \in 1..LiveThreads :
        \/ \E name \in ThreadNames \ {tls[t].name} :
              lksmith_set_thread_name(t, name)
        \/ \E ptr \in 1..LiveLocks :
              \/ /\ g_color < LiveMaxColor
                 /\ ~tls_contains_lid(tls[t].held, ptr)
                 /\ holder_create(t, ptr)
              \/ prelock_locked(t, ptr)
              \/ /\ InternalLocksFree
                 /\ lksmith_postlock(t, ptr, 0)
              \/ /\ InternalLocksFree
                 /\ tls_contains_lid(tls[t].held, ptr)
                 /\ lksmith_preunlock(t, ptr)
              \/ /\ InternalLocksFree
                 /\ lksmith_postunlock(t, ptr)
              \/ destroy_lock(t, ptr)
              \/ /\ pend[t].kind = "none"
                 /\ cond_wait_not_held(t, ptr)
        \/ destroy_locked(t)
        \/ lksmith_errora(t)
        \/ lksmith_errora_unlocked(t)
        \/ lksmith_errora_unlock(t)
        \/ report_return(t)

LiveFairness ==
    \A t \in 1..LiveThreads :
        /\ \A ptr \in 1..LiveLocks : SF_vars(prelock_locked(t, ptr))
        /\ WF_vars(destroy_locked(t))
        /\ SF_vars(lksmith_errora(t))
        /\ WF_vars(lksmith_errora_unlocked(t))
        /\ WF_vars(lksmith_errora_unlock(t))
        /\ WF_vars(report_return(t))

SpecLive == LiveInit /\ [][LiveNext]_vars /\ LiveFairness

(***************************************************************************)
(* Properties.                                                             *)
(***************************************************************************)
HeldSet(t) == {tls[t].held[i] : i \in 1..Len(tls[t].held)}

\* record address b is listed in the before array of record address a
InBefore(h, a, b) == \E i \in 1..Len(h[a].before) : h[a].before[i] = b

\* the step is entry point op called by thread t on token ptr
Called(op, t, ptr) ==
    /\ last'.op = op
    /\ last'.thread = t
    /\ last'.ptr = ptr

\* the step is a call of prelock by thread t on token ptr that returned or
\* died
Prelocked(t, ptr) ==
    /\ last'.op \in {"prelock", "abort"}
    /\ last'.thread = t
    /\ last'.ptr = ptr

\* s without its i-th entry
Without(s, i) == SubSeq(s, 1, i - 1) \o SubSeq(s, i + 1, Len(s))

\* C1: when the record of A is in the before array of the record of B (A
\* was held while B was taken), a prelock of A by a thread that holds B
\* reports EDEADLK exactly once and does not put B's record into A's
\* before array.
C1_Inversion ==
    [][\A A \in 1..InvLocks, B \in 1..InvLocks :
          (/\ A # B
           /\ Called("prelock", 1, A)
           /\ B \in HeldSet(1)
           /\ g_tree[A] # NULL
           /\ g_tree[B] # NULL
           /\ InBefore(heap, g_tree[B], g_tree[A])) =>
              /\ reports' = <<EDEADLK>>
              /\ ~InBefore(heap', g_tree'[A], g_tree'[B])]_vars

\* two live records list each other in their before arrays
C1_CycleRecorded ==
    \E A \in 1..InvLocks, B \in 1..InvLocks :
        /\ A # B
        /\ g_tree[A] # NULL
        /\ g_tree[B] # NULL
        /\ InBefore(heap, g_tree[B], g_tree[A])
        /\ InBefore(heap, g_tree[A], g_tree[B])

\* thread u holds its own lock and has made its prelock of the next one
RingWaiting(u) ==
    /\ tls[u].held = <<u>>
    /\ pend[u] = [kind |-> "lock", ptr |-> RingSucc(u)]

\* C2: in the ring, a prelock of the successor's lock reports EDEADLK
\* (once) exactly when every other thread has already made its own ring
\* prelock, that is when it is the last one and closes the cycle; every
\* earlier one reports nothing and adds its edge.  So one report in all.
C2_RingOneReport ==
    [][\A t \in DOMAIN tls :
          (tls[t].held = <<t>> /\ Called("prelock", t, RingSucc(t))) =>
              LET closer == \A u \in DOMAIN tls \ {t} : RingWaiting(u)
              IN /\ reports' = IF closer THEN <<EDEADLK>> ELSE <<>>
                 /\ ~closer =>
                       InBefore(heap', g_tree'[RingSucc(t)], g_tree'[t])]_vars

\* a ring of at least three threads has been closed
C2_RingClosed ==
    /\ Cardinality(DOMAIN tls) >= 3
    /\ \A u \in DOMAIN tls : RingWaiting(u)
    /\ reports = <<EDEADLK>>

\* C3: when every thread takes its locks in increasing token order, no
\* prelock, postlock, preunlock or postunlock reports anything, and a
\* destroy of a registered lock made while no thread holds or awaits any
\* lock returns 0.
C3_NoFalsePositives ==
    [][\A t \in 1..OrdThreads, ptr \in 1..OrdLocks :
          /\ last'.op \in {"prelock", "postlock", "preunlock", "postunlock"}
                => reports' = <<>>
          /\ (/\ lksmith_destroy(t, ptr)
              /\ g_tree[ptr] # NULL
              /\ \A u \in 1..OrdThreads :
                    tls[u].held = <<>> /\ pend[u] = NoPend) =>
                last' = Returns("destroy", t, ptr, 0)]_vars

\* C4: after a destroy that returns 0, no record still in the registry
\* lists the destroyed record in its before array.
C4_DestroyClearsBefore ==
    [][\A ptr \in 1..DestroyLocks :
          (/\ Called("destroy", 1, ptr)
           /\ last'.ret = 0
           /\ g_tree[ptr] # NULL) =>
              \A q \in 1..DestroyLocks :
                  g_tree'[q] # NULL =>
                      ~InBefore(heap', g_tree'[q], g_tree[ptr])]_vars

\* a destroy returned 0 and left the freed record twice in a before array
C4_StaleDuplicate ==
    /\ last.op = "destroy"
    /\ last.ret = 0
    /\ \E q \in 1..DestroyLocks :
          /\ g_tree[q] # NULL
          /\ \E i \in 1..Len(heap[g_tree[q]].before) :
                /\ i < Len(heap[g_tree[q]].before)
                /\ heap[g_tree[q]].before[i] = heap[g_tree[q]].before[i + 1]
                /\ ~heap[heap[g_tree[q]].before[i]].live

\* C5: destroy of a registered lock whose holders list is not empty returns
\* EBUSY, reports EBUSY exactly once and changes no validator state; with
\* an empty holders list it returns 0.
C5_DestroyBusy ==
    [][\A t \in 1..OrdThreads, ptr \in 1..OrdLocks :
          (lksmith_destroy(t, ptr) /\ g_tree[ptr] # NULL) =>
              IF heap[g_tree[ptr]].holders # <<>>
              THEN /\ last' = Returns("destroy", t, ptr, EBUSY)
                   /\ reports' = <<EBUSY>>
                   /\ UNCHANGED <<g_tree, heap, g_color, tls, pend>>
              ELSE last' = Returns("destroy", t, ptr, 0)]_vars

\* C6: preunlock of a registered token by a thread whose held list lacks it
\* returns EPERM, reports EPERM exactly once and changes no validator
\* state; a thread whose held list has it is let through with 0.
C6_PreunlockNotHolder ==
    [][\A t \in Threads, ptr \in Locks :
          (Called("preunlock", t, ptr) /\ g_tree[ptr] # NULL) =>
              IF ptr \notin HeldSet(t)
              THEN /\ last'.ret = EPERM
                   /\ reports' = <<EPERM>>
                   /\ UNCHANGED <<g_tree, heap, g_color, tls, pend>>
              ELSE /\ last'.ret = 0
                   /\ reports' = <<>>
                   /\ pend'[t] = [kind |-> "unlock", ptr |-> ptr]]_vars

\* a preunlock was refused while another thread holds the lock
C6_Refused ==
    /\ last.op = "preunlock"
    /\ last.ret = EPERM
    /\ reports = <<EPERM>>
    /\ \E u \in Threads \ {last.thread} : last.ptr \in HeldSet(u)

\* C7: a successful preunlock takes one off the caller's num_spins iff the
\* record is not a sleeper and leaves held alone; the postunlock that
\* follows leaves num_spins alone and removes exactly one occurrence of the
\* token from held, the other entries keeping their order.
C7_UnlockPair ==
    [][\A t \in Threads, ptr \in Locks :
          /\ (Called("preunlock", t, ptr) /\ last'.ret = 0
                 /\ g_tree[ptr] # NULL) =>
                /\ tls'[t].num_spins = tls[t].num_spins -
                      (IF heap[g_tree[ptr]].sleeper THEN 0 ELSE 1)
                /\ tls'[t].held = tls[t].held
          /\ Called("postunlock", t, ptr) =>
                /\ reports' = <<>>
                /\ tls'[t].num_spins = tls[t].num_spins
                /\ \E i \in 1..Len(tls[t].held) :
                      /\ tls[t].held[i] = ptr
                      /\ tls'[t].held = Without(tls[t].held, i)]_vars

\* a spin lock was released by a thread that still holds another lock
C7_Released ==
    /\ last.op = "postunlock"
    /\ g_tree[last.ptr] # NULL
    /\ ~heap[g_tree[last.ptr]].sleeper
    /\ tls[last.thread].held # <<>>
    /\ tls[last.thread].num_spins = 0

\* C8: check_locked called in thread t answers 0 iff the token is in t's
\* held list and -1 otherwise, whatever the other threads hold, and changes
\* no state.
C8_CheckLocked ==
    [][\A t \in Threads, ptr \in Locks :
          Called("check_locked", t, ptr) =>
              /\ last'.ret = (IF ptr \in HeldSet(t) THEN 0 ELSE -1)
              /\ UNCHANGED <<g_tree, heap, g_color, tls, pend>>]_vars

\* check_locked answered -1 for a lock that another thread holds
C8_NotHeldHere ==
    /\ last.op = "check_locked"
    /\ last.ret = -1
    /\ \E u \in Threads \ {last.thread} : last.ptr \in HeldSet(u)

\* C9: a condition wait on a mutex the caller does not hold returns EPERM,
\* reports EPERM exactly once and never enters the underlying wait; a wait
\* on a mutex the caller holds enters the underlying wait, and neither the
\* call nor its return changes the caller's held list.
C9_CondWait ==
    [][\A t \in Threads, ptr \in Locks :
          /\ (pend[t].kind = "none"
                 /\ (Called("cond_wait", t, ptr)
                        \/ Called("r_cond_wait", t, ptr))) =>
                IF ptr \notin HeldSet(t)
                THEN /\ last' = Returns("cond_wait", t, ptr, EPERM)
                     /\ reports' = <<EPERM>>
                     /\ UNCHANGED <<g_tree, heap, g_color, tls, pend>>
                ELSE /\ last'.op = "r_cond_wait"
                     /\ reports' = <<>>
                     /\ pend'[t] = [kind |-> "condwait", ptr |-> ptr]
                     /\ tls' = tls
          /\ (pend[t].kind = "condwait" /\ Called("cond_wait", t, ptr)) =>
                /\ last'.ret = 0
                /\ tls' = tls]_vars

\* a wait was refused while another thread is suspended in a wait
C9_RefusedWait ==
    /\ last.op = "cond_wait"
    /\ last.ret = EPERM
    /\ reports = <<EPERM>>
    /\ \E u \in Threads : pend[u].kind = "condwait"

\* C10: postlock with error 0 reports EWOULDBLOCK exactly when the record is
\* a sleeper, the caller's num_spins is positive and spin_warn is clear, and
\* then sets spin_warn; a set spin_warn stays set as long as the record
\* lives, so a record is reported at most once; postlock of a spin lock
\* never reports.
C10_WouldBlockOnce ==
    [][\A t \in Threads, ptr \in Locks :
          /\ (lksmith_postlock(t, ptr, 0) /\ g_tree[ptr] # NULL) =>
                LET rec == heap[g_tree[ptr]]
                    due == /\ rec.sleeper
                           /\ tls[t].num_spins > 0
                           /\ ~rec.spin_warn
                IN /\ reports' = IF due THEN <<EWOULDBLOCK>> ELSE <<>>
                   /\ heap'[g_tree[ptr]].spin_warn = (rec.spin_warn \/ due)
          /\ (/\ g_tree[ptr] # NULL
              /\ g_tree'[ptr] = g_tree[ptr]
              /\ heap[g_tree[ptr]].spin_warn) =>
                heap'[g_tree[ptr]].spin_warn]_vars

\* a sleeping lock was taken under a spin lock for the second time, silently
C10_SecondTimeSilent ==
    /\ last.op = "postlock"
    /\ reports = <<>>
    /\ g_tree[last.ptr] # NULL
    /\ heap[g_tree[last.ptr]].sleeper
    /\ heap[g_tree[last.ptr]].spin_warn
    /\ tls[last.thread].num_spins > 0
    /\ tls[last.thread].held # <<>>
    /\ tls[last.thread].held[Len(tls[last.thread].held)] = last.ptr


\* C11: a prelock of A by a thread that already holds A, where the record of
\* A is not recursive, reports EDEADLK exactly once in that call, whatever
\* else the thread holds, and does not put A's record into its own before
\* array.
C11_SelfDeadlockOnce ==
    [][\A t \in Threads, A \in Locks :
          (/\ Called("prelock", t, A)
           /\ A \in HeldSet(t)
           /\ g_tree[A] # NULL
           /\ ~heap[g_tree[A]].recursive) =>
                /\ reports' = <<EDEADLK>>
                /\ ~InBefore(heap', g_tree[A], g_tree[A])]_vars

\* the self-acquisition was reported together with an inversion against
\* another held lock
C11_ReportedTwice ==
    /\ last.op = "prelock"
    /\ last.ptr \in HeldSet(last.thread)
    /\ g_tree[last.ptr] # NULL
    /\ ~heap[g_tree[last.ptr]].recursive
    /\ reports = <<EDEADLK, EDEADLK>>


\* C12: for a recursive lock, a nested prelock by the thread that holds
\* nothing else reports nothing and prepends one holder entry; after each
\* postlock with error 0 and each postunlock the record has as many holder
\* entries of the thread as held has occurrences of the token; postunlock
\* removes the thread's most recent holder entry; and once the record has
\* no holder and held has no occurrence, destroy returns 0.
C12_RecursiveNesting ==
    [][\A ptr \in 1..NestLocks :
          LET lk == g_tree[ptr]
              known == lk # NULL /\ heap[lk].recursive
              first == CHOOSE i \in 1..Len(heap[lk].holders) :
                          /\ heap[lk].holders[i] = tls[1].name
                          /\ \A j \in 1..(i - 1) :
                                heap[lk].holders[j] # tls[1].name
          IN /\ (/\ known
                 /\ lksmith_prelock(1, ptr, TRUE, <<"main">>)
                 /\ \A p \in HeldSet(1) : p = ptr) =>
                   /\ reports' = <<>>
                   /\ heap'[lk].holders = <<tls[1].name>> \o heap[lk].holders
             /\ (known /\ lksmith_postlock(1, ptr, 0)) =>
                   /\ Count(tls'[1].held, ptr) = Count(tls[1].held, ptr) + 1
                   /\ Count(heap'[lk].holders, tls[1].name)
                         = Count(tls'[1].held, ptr)
             /\ (known /\ lksmith_postunlock(1, ptr)) =>
                   /\ heap'[lk].holders = Without(heap[lk].holders, first)
                   /\ Count(tls'[1].held, ptr) = Count(tls[1].held, ptr) - 1
                   /\ Count(heap'[lk].holders, tls[1].name)
                         = Count(tls'[1].held, ptr)
             /\ (/\ known
                 /\ lksmith_destroy(1, ptr)
                 /\ heap[lk].holders = <<>>
                 /\ ptr \notin HeldSet(1)) =>
                   /\ last' = Returns("destroy", 1, ptr, 0)
                   /\ g_tree'[ptr] = NULL]_vars

\* the destroy of a recursive lock that was taken twice and has been
\* released as often did not return
C12_DestroyDied ==
    /\ last.op = "abort"
    /\ pend[1] = NoPend
    /\ tls[1].held = <<>>
    /\ g_tree[last.ptr] # NULL
    /\ heap[g_tree[last.ptr]].recursive
    /\ heap[g_tree[last.ptr]].nlock = 2
    /\ heap[g_tree[last.ptr]].holders = <<>>


\* C13: optional_init on a token that has a record returns EEXIST and
\* leaves the registry and every record (properties, nlock, before array,
\* holders) unchanged; on a token without a record it returns 0 and creates
\* exactly one record, at an address no other token uses, with the given
\* properties, an empty before array and no holders, and changes no other
\* record.
C13_OptionalInit ==
    [][\A ptr \in 1..CallLocks, r \in BOOLEAN, s \in BOOLEAN :
          (/\ Called("optional_init", 1, ptr)
           /\ lksmith_optional_init(1, ptr, r, s)) =>
             IF g_tree[ptr] # NULL
             THEN /\ last'.ret = EEXIST
                  /\ reports' = <<EEXIST>>
                  /\ g_tree' = g_tree
                  /\ heap' = heap
             ELSE /\ last'.ret = 0
                  /\ reports' = <<>>
                  /\ g_tree'[ptr] # NULL
                  /\ \A q \in DOMAIN g_tree :
                        q # ptr => /\ g_tree'[q] = g_tree[q]
                                   /\ g_tree'[q] # g_tree'[ptr]
                  /\ \A a \in DOMAIN heap :
                        a # g_tree'[ptr] => heap'[a] = heap[a]
                  /\ LET rec == heap'[g_tree'[ptr]]
                     IN /\ rec.live
                        /\ rec.ptr = ptr
                        /\ rec.recursive = r
                        /\ rec.sleeper = s
                        /\ rec.nlock = 0
                        /\ rec.before = <<>>
                        /\ rec.holders = <<>>]_vars

\* a second initialisation of a lock that is held and has a before array
\* was refused
C13_RefusedWhileInUse ==
    /\ last.op = "optional_init"
    /\ last.ret = EEXIST
    /\ reports = <<EEXIST>>
    /\ g_tree[last.ptr] # NULL
    /\ heap[g_tree[last.ptr]].holders # <<>>
    /\ heap[g_tree[last.ptr]].before # <<>>


\* C14: a prelock on a token without a record creates the record with
\* recursive = TRUE and sleeper equal to the argument of the call; a
\* prelock on a token with a record leaves the recursive and sleeper
\* properties of that record as they are, whatever the sleeper argument;
\* and no prelock changes the properties of another live record.
C14_LazyCreation ==
    [][\A ptr \in 1..CallLocks, s \in BOOLEAN, bt \in Backtraces :
          (Prelocked(1, ptr) /\ lksmith_prelock(1, ptr, s, bt)) =>
             /\ g_tree'[ptr] # NULL
             /\ IF g_tree[ptr] = NULL
                THEN /\ heap'[g_tree'[ptr]].recursive
                     /\ heap'[g_tree'[ptr]].sleeper = s
                ELSE /\ g_tree'[ptr] = g_tree[ptr]
                     /\ heap'[g_tree[ptr]].recursive
                           = heap[g_tree[ptr]].recursive
                     /\ heap'[g_tree[ptr]].sleeper
                           = heap[g_tree[ptr]].sleeper
             /\ \A q \in DOMAIN g_tree :
                   (q # ptr /\ g_tree[q] # NULL) =>
                      /\ g_tree'[q] = g_tree[q]
                      /\ heap'[g_tree[q]].recursive
                            = heap[g_tree[q]].recursive
                      /\ heap'[g_tree[q]].sleeper
                            = heap[g_tree[q]].sleeper]_vars

\* a recursive record that is not a sleeper was locked and then went
\* through another prelock
C14_LazySpinRecord ==
    /\ last.op = "prelock"
    /\ g_tree[last.ptr] # NULL
    /\ heap[g_tree[last.ptr]].recursive
    /\ ~heap[g_tree[last.ptr]].sleeper
    /\ heap[g_tree[last.ptr]].nlock > 0


\* the backtrace has a frame named ignore1 or a frame whose name starts
\* with skip
IgnoredCaller(bt) ==
    \E i \in 1..Len(bt) : bt[i] \in {"ignore1", "skip_lock"}

\* C15: a prelock whose backtrace has a frame on the ignore list (by exact
\* name or by pattern) reports nothing, leaves g_color and the before array
\* of every record as they are (a record it creates has an empty before
\* array), prepends the holder entry and returns 0.
C15_IgnoredFrames ==
    [][\A ptr \in 1..CallLocks, s \in BOOLEAN, bt \in Backtraces :
          (/\ Prelocked(1, ptr)
           /\ IgnoredCaller(bt)
           /\ lksmith_prelock(1, ptr, s, bt)) =>
             /\ last' = Returns("prelock", 1, ptr, 0)
             /\ reports' = <<>>
             /\ g_color' = g_color
             /\ \A q \in DOMAIN g_tree :
                   g_tree[q] # NULL =>
                      /\ g_tree'[q] = g_tree[q]
                      /\ heap'[g_tree[q]].before = heap[g_tree[q]].before
             /\ g_tree[ptr] = NULL => heap'[g_tree'[ptr]].before = <<>>
             /\ heap'[g_tree'[ptr]].holders =
                  <<tls[1].name>> \o (IF g_tree[ptr] = NULL THEN <<>>
                                      ELSE heap[g_tree[ptr]].holders)]_vars

\* B is held and A is recorded as taken before B; a prelock of A reported
\* nothing and did not record B as taken before A
C15_ReverseOrderIgnored ==
    /\ last.op = "prelock"
    /\ pend[1] = [kind |-> "lock", ptr |-> last.ptr]
    /\ reports = <<>>
    /\ \E B \in HeldSet(1) :
          /\ B # last.ptr
          /\ InBefore(heap, g_tree[B], g_tree[last.ptr])
          /\ ~InBefore(heap, g_tree[last.ptr], g_tree[B])


\* C16: every prelock returns 0, prepends the caller's holder entry to the
\* record and leaves the caller at the underlying acquisition, also when it
\* reports EDEADLK for a self-acquisition or a lock inversion; it changes
\* neither held nor the holders of another record.
C16_PrelockSucceeds ==
    [][\A t \in Threads, ptr \in Locks :
          (/\ Prelocked(t, ptr)
           /\ lksmith_prelock(t, ptr, ~IsSpin(ptr), <<"main">>)) =>
             /\ last' = Returns("prelock", t, ptr, 0)
             /\ pend' = [pend EXCEPT ![t] = [kind |-> "lock", ptr |-> ptr]]
             /\ tls' = tls
             /\ heap'[g_tree'[ptr]].holders =
                  <<tls[t].name>> \o (IF g_tree[ptr] = NULL THEN <<>>
                                      ELSE heap[g_tree[ptr]].holders)
             /\ \A q \in Locks :
                   (q # ptr /\ g_tree[q] # NULL) =>
                      heap'[g_tree[q]].holders = heap[g_tree[q]].holders]_vars

\* a prelock reported a deadlock, returned 0 and put the caller in front of
\* the holder entry of another thread
C16_ReportedAndReturned ==
    /\ last.op = "prelock"
    /\ last.ret = 0
    /\ \E i \in 1..Len(reports) : reports[i] = EDEADLK
    /\ pend[last.thread] = [kind |-> "lock", ptr |-> last.ptr]
    /\ Len(heap[g_tree[last.ptr]].holders) > 1
    /\ heap[g_tree[last.ptr]].holders[1] = tls[last.thread].name
    /\ heap[g_tree[last.ptr]].holders[2] # tls[last.thread].name


\* C17: when a thread that holds A (A has a record, A # B) calls prelock on
\* B and the call reports nothing, A's record is in the before array of B's
\* record when the call returns; and an entry of a before array stays in it
\* as long as both locks keep their records.
C17_BeforeRecorded ==
    [][\A A \in 1..DestroyLocks, B \in 1..DestroyLocks :
          /\ (/\ A # B
              /\ Called("prelock", 1, B)
              /\ A \in HeldSet(1)
              /\ g_tree[A] # NULL
              /\ reports' = <<>>) =>
                InBefore(heap', g_tree'[B], g_tree[A])
          /\ (/\ A # B
              /\ g_tree[A] # NULL
              /\ g_tree[B] # NULL
              /\ InBefore(heap, g_tree[B], g_tree[A])
              /\ g_tree'[A] = g_tree[A]
              /\ g_tree'[B] = g_tree[B]) =>
                InBefore(heap', g_tree[B], g_tree[A])]_vars


\* C18: in every state, no two registered locks A # B have records that
\* are each in the before array of the other: an insertion that would close
\* such a pair is reported as an inversion and not made.
C18_NoMutualBefore ==
    \A A \in DOMAIN g_tree, B \in DOMAIN g_tree :
        (/\ A # B
         /\ g_tree[A] # NULL
         /\ g_tree[B] # NULL
         /\ heap[g_tree[A]].live
         /\ heap[g_tree[B]].live
         /\ InBefore(heap, g_tree[B], g_tree[A])) =>
            ~InBefore(heap, g_tree[A], g_tree[B])

\* a prelock of A reported one inversion and still put the record of a held
\* lock B, which has A in its before array, into the before array of A
C18_InsertedDespiteReport ==
    /\ last.op = "prelock"
    /\ reports = <<EDEADLK>>
    /\ pend[1] = [kind |-> "lock", ptr |-> last.ptr]
    /\ \E B \in HeldSet(1) :
          /\ B # last.ptr
          /\ InBefore(heap, g_tree[B], g_tree[last.ptr])
          /\ InBefore(heap, g_tree[last.ptr], g_tree[B])


\* C19: in every state, every token in a thread's held list has a record in
\* the registry, and that record is live, carries the token and belongs to
\* no other token; a destroy of a held lock is refused.
C19_HeldHasRecord ==
    \A t \in Threads :
        \A i \in 1..Len(tls[t].held) :
            LET p == tls[t].held[i]
            IN /\ g_tree[p] # NULL
               /\ heap[g_tree[p]].live
               /\ heap[g_tree[p]].ptr = p
               /\ \A q \in Locks : q # p => g_tree[q] # g_tree[p]

\* a destroy of a lock that another thread holds was refused
C19_DestroyRefusedWhileHeld ==
    /\ last.op = "destroy"
    /\ last.ret = EBUSY
    /\ \E u \in Threads :
          /\ u # last.thread
          /\ last.ptr \in HeldSet(u)
          /\ pend[u] = NoPend


\* C20: in every state, for every record that is not recursive, the held
\* lists of all threads together contain its token at most once, also while
\* a holder is suspended in a condition wait on that mutex.
C20_NonRecursiveHeldOnce ==
    \A ptr \in Locks :
        (g_tree[ptr] # NULL /\ ~heap[g_tree[ptr]].recursive) =>
            \A t \in Threads, u \in Threads :
                /\ Count(tls[t].held, ptr) <= 1
                /\ (t # u /\ ptr \in HeldSet(t)) => ptr \notin HeldSet(u)

\* a mutex that is not recursive is in the held list of a thread suspended
\* in a condition wait on it and in the held list of a thread that locked
\* it meanwhile
C20_HeldWhileWaiting ==
    \E t \in Threads, u \in Threads, ptr \in Locks :
        /\ t # u
        /\ ~IsSpin(ptr)
        /\ g_tree[ptr] # NULL
        /\ ~heap[g_tree[ptr]].recursive
        /\ pend[u] = [kind |-> "condwait", ptr |-> ptr]
        /\ ptr \in HeldSet(u)
        /\ ptr \in HeldSet(t)
        /\ last = Returns("postlock", t, ptr, 0)


\* number of threads that hold token ptr, and number of threads that have
\* returned from prelock on ptr and have not called postlock yet
HeldTotal(ptr) ==
    Cardinality({e \in Threads \X (1..(2 * MaxColor)) :
                    /\ e[2] <= Len(tls[e[1]].held)
                    /\ tls[e[1]].held[e[2]] = ptr})

PendingLocks(ptr) ==
    Cardinality({t \in Threads : pend[t] = [kind |-> "lock", ptr |-> ptr]})

SpinsHeld(t) ==
    Cardinality({i \in 1..Len(tls[t].held) :
                    /\ g_tree[tls[t].held[i]] # NULL
                    /\ ~heap[g_tree[tls[t].held[i]]].sleeper})

\* C23: in every state, num_spins of a thread is not negative, and unless
\* the thread is between a successful preunlock and its postunlock it
\* equals the number of entries of the thread's held list whose record has
\* sleeper = FALSE.
C23_NumSpins ==
    \A t \in Threads :
        /\ tls[t].num_spins >= 0
        /\ pend[t].kind # "unlock" => tls[t].num_spins = SpinsHeld(t)

\* a thread that holds a spin lock and a mutex has released one more
\* acquisition of the spin lock
C23_SpinAndMutexHeld ==
    \E t \in Threads :
        /\ last = Returns("postunlock", t, 1, 0)
        /\ tls[t].num_spins = 1
        /\ HeldSet(t) = {1, 2}
        /\ heap[g_tree[2]].sleeper
        /\ ~heap[g_tree[1]].sleeper


\* C24: in every state, a thread in which the user error callback is
\* running does not hold g_error_lock.
C24_CallbackWithoutSinkLock ==
    \A t \in DOMAIN tls :
        pend[t].kind = "callback" => "g_error_lock" \notin LocksOf(t)

\* the callback runs in one thread under g_error_lock while another thread
\* with a report of its own waits for that mutex
C24_CallbackSerialized ==
    \E t \in DOMAIN tls, u \in DOMAIN tls :
        /\ t # u
        /\ pend[t].kind = "callback"
        /\ "g_error_lock" \in LocksOf(t)
        /\ pend[u].kind = "report"

\* C25: in every state, no thread holds g_error_lock and g_tree_lock
\* together.
C25_SinkAndRegistryApart ==
    \A t \in DOMAIN tls :
        ~({"g_error_lock", "g_tree_lock"} \subseteq LocksOf(t))

\* destroy reports EBUSY to the callback from inside its registry critical
\* section
C25_ReportUnderRegistryLock ==
    \E t \in DOMAIN tls :
        /\ pend[t].kind = "callback"
        /\ pend[t].op = "destroy"
        /\ reports = <<EBUSY>>
        /\ LocksOf(t) = {"g_error_lock", "g_tree_lock"}


\* C26: destroy on a token without a record returns ENOENT, reports
\* nothing and changes no validator state, and the wrapper
\* pthread_mutex_destroy then returns whatever the underlying destroy
\* returns (0 for a statically initialised mutex that was never locked).
C26_DestroyUnknown ==
    [][\A t \in Threads, ptr \in Locks :
          (Called("destroy", t, ptr) /\ g_tree[ptr] = NULL) =>
             /\ last'.ret = ENOENT
             /\ reports' = <<>>
             /\ UNCHANGED <<g_tree, heap, g_color, tls, pend>>
             /\ \A r_ret \in {0, EBUSY} :
                   pthread_mutex_destroy(last'.ret, r_ret) = r_ret]_vars

\* a lock without a record was destroyed while the other lock is held
C26_UnknownDestroyed ==
    /\ last.op = "destroy"
    /\ last.ret = ENOENT
    /\ reports = <<>>
    /\ g_tree[last.ptr] = NULL
    /\ \E t \in Threads, q \in Locks : q # last.ptr /\ q \in HeldSet(t)


\* C27: when a thread that holds its mutex waits on the condition variable
\* on which another thread is waiting with a different mutex, the wait
\* fails with a non-zero result and exactly one EINVAL report is emitted,
\* while the wait of the other thread goes on.
C27_BadCondWait ==
    [][\A t \in 1..WaitThreads, ptr \in 1..WaitLocks :
          (/\ ptr \in HeldSet(t)
           /\ OtherMutexWaiting(t, ptr)
           /\ pthread_cond_wait_shared(t, ptr)) =>
             /\ last' = Returns("cond_wait", t, ptr, EINVAL)
             /\ reports' = <<EINVAL>>
             /\ pend' = pend]_vars

\* the second wait failed with EINVAL and nothing was reported
C27_FailedSilently ==
    /\ last.op = "cond_wait"
    /\ last.ret = EINVAL
    /\ reports = <<>>
    /\ last.ptr \in HeldSet(last.thread)
    /\ \E u \in DOMAIN tls :
          /\ u # last.thread
          /\ pend[u].kind = "condwait"
          /\ pend[u].ptr # last.ptr


\* the records reached from the records in S along before edges, S included,
\* going through records in D only
RECURSIVE BeforeClosure(_, _, _)
BeforeClosure(h, S, D) ==
    LET N == S \cup {b \in D : \E a \in S : InBefore(h, a, b)}
    IN IF N = S THEN S ELSE BeforeClosure(h, N, D)

\* record b is reached from record a along one or more before edges through
\* records in D
Reach(h, a, b, D) ==
    /\ a \in D
    /\ b \in BeforeClosure(h, {c \in D : InBefore(h, a, c)}, D)

\* the held tokens, other than P, from whose record the record of P is
\* reached along before edges
Inverted(h, tree, t, P) ==
    {x \in HeldSet(t) :
        /\ x # P
        /\ tree[x] # NULL
        /\ tree[P] # NULL
        /\ Reach(h, tree[x], tree[P], DOMAIN h)}

\* C28: within one prelock of P every held lock is treated on its own: for
\* every held token x # P with a record from which the record of P is
\* reached along before edges, one EDEADLK report is emitted and x is not
\* added to the before array of P, also when an earlier held lock of the
\* same prelock has reported already; every other held x # P is added.
C28_EachHeldIndependently ==
    [][\A P \in 1..InvLocks :
          (/\ Called("prelock", 1, P)
           /\ \A x \in HeldSet(1) : g_tree[x] # NULL) =>
             LET inv == Inverted(heap, g_tree, 1, P)
             IN /\ reports' = [i \in 1..Cardinality(inv) |-> EDEADLK]
                /\ \A x \in HeldSet(1) \ {P} :
                      IF x \in inv
                      THEN InBefore(heap', g_tree'[P], g_tree[x]) =>
                              InBefore(heap, g_tree[P], g_tree[x])
                      ELSE InBefore(heap', g_tree'[P], g_tree[x])]_vars

\* a prelock of P by a thread holding two locks that both have P reachable
\* along before edges has reported a single inversion
C28_SecondInversionMissed ==
    /\ last.op = "prelock"
    /\ pend[1] = [kind |-> "lock", ptr |-> last.ptr]
    /\ Cardinality(Inverted(heap, g_tree, 1, last.ptr)) = 2
    /\ reports = <<EDEADLK>>

\* C29: in every state the before edges among live records form no cycle
\* of any length.
C29_BeforeAcyclic ==
    LET L == {a \in DOMAIN heap : heap[a].live}
    IN \A a \in L : ~Reach(heap, a, a, L)

\* a cycle among the before arrays of three live records, none of which
\* lists itself
C29_CycleOfThree ==
    \E a \in DOMAIN heap, b \in DOMAIN heap, c \in DOMAIN heap :
        /\ a # b /\ b # c /\ a # c
        /\ heap[a].live /\ heap[b].live /\ heap[c].live
        /\ InBefore(heap, a, b)
        /\ InBefore(heap, b, c)
        /\ InBefore(heap, c, a)


\* C30: a postlock with a non-zero error removes the most recent holder
\* entry that carries the caller's name from the record and changes nothing
\* else: every other field of every record (nlock, spin_warn and the before
\* arrays with the edges of the preceding prelock included), the registry
\* and the caller's held list and num_spins stay as they are, and nothing
\* is reported.
C30_FailedPostlock ==
    [][\A t \in DOMAIN tls, ptr \in DOMAIN g_tree :
          (/\ pend[t] = [kind |-> "lock", ptr |-> ptr]
           /\ last'.thread = t
           /\ lksmith_postlock(t, ptr, EBUSY)) =>
             /\ g_tree[ptr] # NULL
             /\ LET lk == g_tree[ptr]
                    hs == heap[lk].holders
                IN /\ \E i \in 1..Len(hs) :
                         /\ hs[i] = tls[t].name
                         /\ \A j \in 1..(i - 1) : hs[j] # tls[t].name
                         /\ heap' = [heap EXCEPT ![lk].holders = Without(hs, i)]
                   /\ tls' = tls
                   /\ g_tree' = g_tree
                   /\ g_color' = g_color
                   /\ reports' = <<>>
                   /\ last' = Returns("postlock", t, ptr, 0)]_vars

\* a failed postlock has returned: the caller holds another lock but not
\* the one it tried, it is gone from the holders of that lock although an
\* older holder entry of another thread is still there, and the edge of the
\* preceding prelock is still in the before array
C30_FailedAttemptReturned ==
    /\ last.op = "postlock"
    /\ reports = <<>>
    /\ pend[last.thread].kind = "none"
    /\ last.ptr \notin HeldSet(last.thread)
    /\ g_tree[last.ptr] # NULL
    /\ \E x \in HeldSet(last.thread) :
          InBefore(heap, g_tree[last.ptr], g_tree[x])
    /\ heap[g_tree[last.ptr]].holders # <<>>
    /\ \A i \in 1..Len(heap[g_tree[last.ptr]].holders) :
          heap[g_tree[last.ptr]].holders[i] # tls[last.thread].name

\* arr is strictly increasing: sorted and free of duplicates
StrictlySorted(arr) == \A i \in 1..(Len(arr) - 1) : arr[i] < arr[i + 1]

\* C31: an entry of a before array stays until one of the two locks is
\* destroyed: a destroy of L that returns 0 takes the record of L, and
\* nothing else, out of the before array of every other registered record,
\* which stays sorted and free of duplicates, and no other step takes
\* anything out of a before array.
C31_EdgesMonotonic ==
    [][\A q \in 1..DestroyLocks :
          (/\ g_tree[q] # NULL
           /\ g_tree'[q] = g_tree[q]) =>
             LET a == g_tree[q]
             IN IF last'.op = "destroy" /\ last'.ret = 0
                   /\ g_tree[last'.ptr] # NULL
                THEN /\ heap'[a].before =
                           SelectSeq(heap[a].before,
                                     LAMBDA b : b # g_tree[last'.ptr])
                     /\ StrictlySorted(heap[a].before) =>
                           StrictlySorted(heap'[a].before)
                ELSE \A b \in DOMAIN heap :
                        InBefore(heap, a, b) => InBefore(heap', a, b)]_vars

\* a destroy returned 0 and the freed record is still the only entry of the
\* before array of a registered record
C31_FreedRecordKept ==
    /\ last.op = "destroy"
    /\ last.ret = 0
    /\ g_tree[last.ptr] = NULL
    /\ \E q \in 1..DestroyLocks :
          /\ g_tree[q] # NULL
          /\ Len(heap[g_tree[q]].before) = 1
          /\ ~heap[heap[g_tree[q]].before[1]].live

\* C32: inversion reports are not deduplicated: every prelock of P by a
\* thread that holds a lock from whose record the record of P is reached
\* along before edges reports EDEADLK, however often the same inversion has
\* been reported before.
C32_ReportedOnEveryOccurrence ==
    [][\A P \in 1..RepLocks :
          (/\ Prelocked(1, P)
           /\ Inverted(heap, g_tree, 1, P) # {}) =>
             /\ last'.op = "prelock"
             /\ \E i \in 1..Len(reports') : reports'[i] = EDEADLK]_vars

\* lock 1 has been acquired twice, the second time while lock 2 was held
\* and lock 1 was in the before array of lock 2, and the prelock of its
\* third acquisition, again with lock 2 held, has reported the inversion
C32_ReportedAgain ==
    /\ last.op = "prelock"
    /\ last.ptr = 1
    /\ reports = <<EDEADLK>>
    /\ tls[1].held = <<2>>
    /\ g_tree[3] = NULL
    /\ heap[g_tree[1]].nlock = 2
    /\ InBefore(heap, g_tree[2], g_tree[1])
    /\ ~InBefore(heap, g_tree[1], g_tree[2])

Others(s, x) == SelectSeq(s, LAMBDA n : n # x)

\* C34: a prelock puts the caller's holder at the head of the holders list
\* of the record; a postunlock, like a postlock with an error, deletes one
\* entry, the one nearest the head that carries the caller's name, and
\* leaves the entries of the other threads and their order as they are.
C34_HolderDiscipline ==
    [][\A t \in DOMAIN tls, ptr \in DOMAIN g_tree :
          /\ (/\ Prelocked(t, ptr)
              /\ pend[t].kind = "none"
              /\ \E sl \in BOOLEAN : lksmith_prelock(t, ptr, sl, <<"main">>)) =>
                /\ last'.op = "prelock"
                /\ heap'[g_tree'[ptr]].holders =
                     <<tls[t].name>> \o
                       (IF g_tree[ptr] = NULL THEN <<>>
                        ELSE heap[g_tree[ptr]].holders)
          /\ (/\ last'.thread = t
              /\ last'.ptr = ptr
              /\ last'.op \in {"postunlock", "postlock", "abort"}
              /\ pend[t].kind \in {"lock", "unlock"}
              /\ g_tree[ptr] # NULL
              /\ \/ lksmith_postunlock(t, ptr)
                 \/ lksmith_postlock(t, ptr, EBUSY)) =>
                LET hs == heap[g_tree[ptr]].holders
                    hs2 == heap'[g_tree[ptr]].holders
                IN /\ last'.op \in {"postunlock", "postlock"}
                   /\ Len(hs2) = Len(hs) - 1
                   /\ Others(hs2, tls[t].name) = Others(hs, tls[t].name)
                   /\ \E i \in 1..Len(hs) :
                         /\ hs[i] = tls[t].name
                         /\ \A j \in 1..(i - 1) : hs[j] # tls[t].name
                         /\ hs2 = Without(hs, i)]_vars

\* a thread that held a recursive lock twice has released it once: one of
\* its two entries is gone and the other is still in the holders list,
\* behind the entry of the other thread
C34_NewestEntryRemoved ==
    /\ last.op = "postunlock"
    /\ reports = <<>>
    /\ g_tree[last.ptr] # NULL
    /\ Len(heap[g_tree[last.ptr]].holders) = 2
    /\ heap[g_tree[last.ptr]].holders[1] # tls[last.thread].name
    /\ heap[g_tree[last.ptr]].holders[2] = tls[last.thread].name
    /\ Count(tls[last.thread].held, last.ptr) = 1

\* no holder of the record of ptr carries the current name of thread t
NoHolderOf(t, ptr) ==
    /\ g_tree[ptr] # NULL
    /\ \A i \in 1..Len(heap[g_tree[ptr]].holders) :
          heap[g_tree[ptr]].holders[i] # tls[t].name

\* C35: when a postunlock, or a postlock with an error, finds no holder
\* that carries the caller's current name on the record (the thread has
\* changed its name since its prelock), the call reports EIO once and
\* returns, and the holders list is as it was.
C35_HolderNotFound ==
    [][\A t \in 1..RenameThreads, ptr \in 1..RenameLocks :
          (/\ last'.thread = t
           /\ last'.ptr = ptr
           /\ NoHolderOf(t, ptr)
           /\ \/ lksmith_postunlock(t, ptr)
              \/ lksmith_postlock(t, ptr, EBUSY)) =>
             /\ last'.op \in {"postunlock", "postlock"}
             /\ reports' = <<EIO>>
             /\ heap'[g_tree[ptr]].holders = heap[g_tree[ptr]].holders]_vars

\* the process has died in the postunlock of a thread that took the lock
\* under another name
C35_DiedInPostunlock ==
    /\ last.op = "abort"
    /\ pend[last.thread] = [kind |-> "unlock", ptr |-> last.ptr]
    /\ NoHolderOf(last.thread, last.ptr)
    /\ heap[g_tree[last.ptr]].holders # <<>>

EntryPoints ==
    {"optional_init", "prelock", "postlock", "preunlock", "postunlock",
     "check_locked", "destroy"}

\* C36: while the intercept flag of a thread is false, which it is during
\* the backtrace capture inside prelock and only then, every call of an
\* entry point by that thread returns 0 and changes nothing: registry,
\* records, colour, thread states and positions stay as they are and
\* nothing is reported; when the capture returns the flag is true again.
C36_ReentrancyGuard ==
    [][/\ \A t \in 1..CaptureThreads :
             (/\ ~tls[t].intercept
              /\ last'.thread = t
              /\ ~holder_created(t, pend[t].ptr, TRUE, <<"main">>)) =>
                /\ last'.op \in EntryPoints
                /\ last'.ret = 0
                /\ reports' = <<>>
                /\ UNCHANGED <<g_tree, heap, g_color, tls, pend>>
       /\ \A t \in 1..CaptureThreads :
             tls'[t].intercept = (pend'[t].kind # "capture")]_vars

\* a destroy called from inside the capture has returned 0 and the unused
\* record is still registered
C36_NestedDestroyIgnored ==
    /\ last.op = "destroy"
    /\ last.ret = 0
    /\ pend[last.thread].kind = "capture"
    /\ ~tls[last.thread].intercept
    /\ g_tree[last.ptr] # NULL
    /\ heap[g_tree[last.ptr]].holders = <<>>

\* the threads inside the section that g_init_state_lock guards
InSpinSection == {t \in DOMAIN pend : pend[t].kind \in {"locked", "init", "unlock"}}

\* C37: when several threads make their first call at the same time,
\* lksmith_init is entered once and only once; at most one thread is inside
\* the section guarded by the spin lock, and the lock word is 1 exactly
\* then; a thread is past the section (at the key, or the owner of a
\* lksmith_tls with which it calls the entry points that take g_tree_lock)
\* only when the initialization is complete; and every thread makes one
\* lksmith_tls at most, which starts with intercept set and no held lock.
C37_OneShotInit ==
    /\ init_runs <= 1
    /\ g_initialized = 1 => init_runs = 1
    /\ Cardinality(InSpinSection) <= 1
    /\ g_init_state_lock = Cardinality(InSpinSection)
    /\ \A t \in DOMAIN pend :
          /\ (pend[t].kind = "key" \/ t \in DOMAIN tls) => g_initialized = 1
          /\ tls_made[t] = (IF t \in DOMAIN tls THEN 1 ELSE 0)
          /\ t \in DOMAIN tls =>
                /\ tls[t].intercept
                /\ tls[t].held = <<>>
    /\ last.op = "optional_init" => g_initialized = 1

\* three threads have made their first call at the same time: one is
\* inside lksmith_init and the others spin on the lock
C37_OneInitializesOthersSpin ==
    \E t \in DOMAIN pend :
        /\ pend[t].kind = "init"
        /\ \A u \in DOMAIN pend \ {t} : pend[u].kind = "spin"
        /\ init_runs = 1
        /\ g_initialized = 0

\* C38: every cycle search terminates, so that every prelock releases the
\* registry lock and returns: a call of lksmith_prelock by a thread that
\* can make it ends with the return of the call, the thread then being
\* outside the validator and about to take the lock (or, with the intercept
\* flag clear, where it was).
C38_PrelockReturns ==
    [][\A t \in DOMAIN tls : \A ptr \in DOMAIN g_tree :
          (/\ last'.thread = t
           /\ last'.ptr = ptr
           /\ last'.op \in {"prelock", "abort"}
           /\ \E sl \in BOOLEAN : lksmith_prelock(t, ptr, sl, <<"main">>))
          => /\ last'.op = "prelock"
             /\ last'.ret = 0
             /\ pend'[t].kind \in {"lock", "capture"}]_vars

\* a prelock has died in its search: the thread holds a lock (so that the
\* call was no destroy) whose record leads to a freed record
C38_SearchReadFreedRecord ==
    /\ last.op = "abort"
    /\ tls[last.thread].held # <<>>
    /\ pend[last.thread].kind = "none"
    /\ \E i \in 1..Len(tls[last.thread].held) :
          LET ak == g_tree[tls[last.thread].held[i]]
          IN /\ ak # NULL
             /\ \E d \in DOMAIN heap :
                   /\ ~heap[d].live
                   /\ d \in BeforeClosure(heap, {ak}, DOMAIN heap)

\* C39: a call of pthread_mutex_init on a mutex that has a record already
\* returns EEXIST and leaves the registry as it was: the record stays
\* registered with its properties and its before array, and the records
\* that list it in their before arrays go on doing so.
C39_FailedInitKeepsRecord ==
    [][\A t \in DOMAIN tls : \A ptr \in DOMAIN g_tree :
          (/\ last'.thread = t
           /\ last'.ptr = ptr
           /\ last'.op \in {"mutex_init", "abort"}
           /\ g_tree[ptr] # NULL
           /\ tls[t].intercept
           /\ \E recursive \in BOOLEAN :
                 pthread_mutex_init(t, ptr, recursive, 0))
          => /\ last' = Returns("mutex_init", t, ptr, EEXIST)
             /\ g_tree' = g_tree
             /\ heap'[g_tree[ptr]] = heap[g_tree[ptr]]
             /\ \A a \in DOMAIN heap :
                   InBefore(heap, a, g_tree[ptr])
                      => InBefore(heap', a, g_tree[ptr])]_vars

\* a second pthread_mutex_init has returned EEXIST and the mutex, which
\* had a record with a before array, has none any more
C39_RecordDestroyed ==
    /\ last.op = "mutex_init"
    /\ last.ret = EEXIST
    /\ g_tree[last.ptr] = NULL
    /\ reports = <<EEXIST>>
    /\ \E a \in DOMAIN heap :
          /\ ~heap[a].live
          /\ heap[a].ptr = last.ptr
          /\ heap[a].before # <<>>

\* thread t is inside an entry point
Inside(t) ==
    pend[t].kind \in {"capture", "destroy", "report", "errora", "callback",
                      "reported"}

\* each internal mutex has one owner at most; g_error_lock is held inside
\* lksmith_errora only, where no mutex is requested; the backtrace capture
\* runs without an internal mutex
InternalLockOrder ==
    /\ \A l \in {"g_tree_lock", "g_error_lock"} :
          Cardinality({t \in DOMAIN tls : l \in LocksOf(t)}) <= 1
    /\ \A t \in DOMAIN tls :
          /\ "g_error_lock" \in LocksOf(t) =>
                pend[t].kind \in {"errora", "callback"}
          /\ pend[t].kind = "capture" => LocksOf(t) = {}

\* a step takes g_tree_lock only in a thread that holds no internal mutex,
\* and changes the registry, a record or g_color only in the thread that
\* has g_tree_lock (or takes and releases it in this step)
UnderRegistryLock ==
    /\ \A t \in DOMAIN tls :
          ("g_tree_lock" \in LocksOf(t)' /\ "g_tree_lock" \notin LocksOf(t))
             => LocksOf(t) = {}
    /\ (g_tree' # g_tree \/ heap' # heap \/ g_color' # g_color) =>
          \A u \in DOMAIN tls :
             "g_tree_lock" \in LocksOf(u) => pend'[u] # pend[u]

\* a thread inside an entry point leaves it
EntryPointsReturn == \A t \in 1..LiveThreads : Inside(t) ~> ~Inside(t)

\* C40: the internal mutexes cannot deadlock: the only nesting is
\* g_tree_lock, then g_error_lock; the backtrace capture holds neither;
\* the registry, the records and g_color change under g_tree_lock only;
\* and, with a callback that calls no entry point and a fair scheduler,
\* no call of an entry point ends with the death of the process and every
\* thread inside an entry point leaves it.
C40_InternalLocksCannotDeadlock ==
    /\ []InternalLockOrder
    /\ [][UnderRegistryLock /\ last'.op # "abort"]_vars
    /\ EntryPointsReturn

\* the process has died in postunlock while the other thread is inside
\* lksmith_destroy with g_tree_lock, from which it never returns
C40_DiedWithCallInProgress ==
    /\ last.op = "abort"
    /\ pend[last.thread] = [kind |-> "unlock", ptr |-> last.ptr]
    /\ \E u \in DOMAIN tls :
          /\ u # last.thread
          /\ Inside(u)

====
